---- MODULE Spec2Model ----
(***************************************************************************)
(* A model of the firehose-grpc block-streaming adapter.                   *)
(*                                                                         *)
(*   SpecArc : Firehose::blocks over the archive (src/src/firehose.rs):    *)
(*             start/stop resolution and the polling stream.               *)
(*   SpecHot : the RPC side (src/src/ds_rpc.rs): the finalized catch-up,   *)
(*             get_hot_blocks, ForkNavigator::move, against an upstream    *)
(*             chain that grows and reorganizes, and the hot-phase         *)
(*             emission of the orchestrator (spec.md 4.8).                 *)
(*   SpecHotFaulty : SpecHot with every failure of the block fetch, the    *)
(*             retried ones included.                                      *)
(*   SpecNav : ForkNavigator::move called with any best and finalized.     *)
(*   SpecCursor : Cursor's Display and TryFrom (src/src/cursor.rs).         *)
(*   SpecSrc : get_finalized_blocks of the archive, portal and RPC         *)
(*             sources on their own.                                       *)
(*   SpecFetch : Fetch.Block (src/src/fetch.rs).                           *)
(*   SpecStream : the spawned task and the capacity-1 channel of           *)
(*             ArchiveStream::blocks (src/src/stream.rs).                  *)
(*   SpecMove : ForkNavigator::move with every failure of its fetches.     *)
(*   SpecFilter : get_logs and get_traces of the RPC source.               *)
(*   SpecEncode : the TransactionTrace built by Firehose::blocks.          *)
(*   SpecTracker : HeightTracker's task and its callers.                   *)
(*   SpecStride : the groups of concurrent requests of the RPC source's    *)
(*             get_finalized_blocks.                                       *)
(*   SpecSplit : split_range.                                              *)
(*   SpecPortal : the line reader of the portal client                     *)
(*             (src/src/portal/client.rs).                                 *)
(*   SpecTrace : the conversion of a node trace into a canonical trace     *)
(*             and its encoding.                                           *)
(*                                                                         *)
(* Strings are sequences of one-character strings, so that formatting and  *)
(* parsing are computed character by character.                            *)
(***************************************************************************)
EXTENDS Integers, Sequences, FiniteSets, TLC

(***************************************************************************)
(* Bounds of the model.                                                    *)
(***************************************************************************)
\* Width, in bits, of the model's integers: i64 is modelled as a signed and
\* u64 as an unsigned IntBits-bit integer.
IntBits == 4
\* Highest block the archive holds during a run.
MaxArchive == 4
\* Highest stop_block_num a request carries.
MaxStop == 3
\* Highest block height of a cursor a request carries.
MaxCursor == 2
\* Highest block the upstream RPC chain reaches.
MaxHeight == 5
\* Number of reorganizations of the upstream chain in a run.
MaxForks == 1
\* Deepest reorganization: the number of head blocks one replaces.
MaxReorgDepth == 2
\* --finality-confirmation: the depth below the head at which a block is final.
FinalityConfirmation == 2
\* Highest archive height of a run that goes on to the RPC phases.
MaxHotArchive == 2
\* Number of successful moves of a navigator driven call by call.
MaxMoves == 3
\* Highest best and finalized of such a move.
MaxBest == 4
\* Highest head of a source asked for finalized blocks on its own, and the
\* number of batches after which it is not polled again.
MaxSrcHead == 3
MaxYield == 6
\* Longest string handed to Cursor::try_from, and longest hash of a cursor.
MaxValueLen == 6
MaxHashLen == 2

Pow2(n) == 2 ^ n
I64Min == -Pow2(IntBits - 1)
I64Max == Pow2(IntBits - 1) - 1
U64Max == Pow2(IntBits) - 1

\* Option<T>: None is the empty sequence, Some(x) is <<x>>.
None == <<>>
Some(x) == <<x>>
IsSome(o) == Len(o) = 1
Unwrap(o) == o[1]

Min(a, b) == IF a <= b THEN a ELSE b
Max(a, b) == IF a >= b THEN a ELSE b
\* u64::saturating_sub
saturating_sub(a, b) == IF a >= b THEN a - b ELSE 0

(***************************************************************************)
(* Strings: decimal formatting and parsing, split.                         *)
(***************************************************************************)
Digits == <<"0", "1", "2", "3", "4", "5", "6", "7", "8", "9">>
DigitChars == {Digits[i] : i \in 1..10}
DigitVal(c) == (CHOOSE i \in 1..10 : Digits[i] = c) - 1

\* The numbers from..to in ascending order.
Range(from, to) == [i \in 1..(IF to >= from THEN to - from + 1 ELSE 0) |-> from + i - 1]

\* u64's Display: the decimal digits, no sign, no leading zero.
RECURSIVE to_string(_)
to_string(n) ==
    IF n < 10 THEN <<Digits[n + 1]>>
    ELSE to_string(n \div 10) \o <<Digits[(n % 10) + 1]>>

RECURSIVE DecValue(_, _)
DecValue(s, acc) ==
    IF s = <<>> THEN acc
    ELSE IF acc * 10 + DigitVal(Head(s)) > U64Max THEN -1
    ELSE DecValue(Tail(s), acc * 10 + DigitVal(Head(s)))

\* str::parse::<u64>: an optional leading '+', then one or more decimal
\* digits, the value fitting the type; None stands for Err.
parse_u64(s) ==
    LET body == IF s # <<>> /\ Head(s) = "+" THEN Tail(s) ELSE s
    IN  IF body = <<>> \/ \E i \in 1..Len(body) : body[i] \notin DigitChars
        THEN None
        ELSE IF DecValue(body, 0) < 0 THEN None ELSE Some(DecValue(body, 0))

\* str::split(sep): the fields between separators; the empty string has
\* one (empty) field.
RECURSIVE SplitFrom(_, _, _)
SplitFrom(s, sep, cur) ==
    IF s = <<>> THEN <<cur>>
    ELSE IF Head(s) = sep THEN <<cur>> \o SplitFrom(Tail(s), sep, <<>>)
    ELSE SplitFrom(Tail(s), sep, Append(cur, Head(s)))

split(s, sep) == SplitFrom(s, sep, <<>>)

(***************************************************************************)
(* Cursor (src/src/cursor.rs).                                             *)
(***************************************************************************)
HashAndHeight(hash, height) == [hash |-> hash, height |-> height]
Cursor(block, finalized) == [block |-> block, finalized |-> finalized]

\* A Display that writes each hash ahead of its height.
cursor_to_string_hash_first(c) ==
    c.block.hash \o <<":">> \o to_string(c.block.height) \o <<":">>
        \o c.finalized.hash \o <<":">> \o to_string(c.finalized.height)

\* impl fmt::Display for Cursor
cursor_to_string(c) ==
    to_string(c.block.height) \o <<":">> \o c.block.hash \o <<":">>
        \o to_string(c.finalized.height) \o <<":">> \o c.finalized.hash

\* A TryFrom that only asks for four fields or more.
cursor_try_from_four_or_more(value) ==
    LET fields == split(value, ":")
    IN  IF Len(fields) < 4 THEN [ok |-> FALSE, err |-> "invalid cursor"]
        ELSE IF ~IsSome(parse_u64(fields[1]))
             THEN [ok |-> FALSE, err |-> "invalid block height"]
        ELSE IF ~IsSome(parse_u64(fields[3]))
             THEN [ok |-> FALSE, err |-> "invalid finalized block height"]
        ELSE [ok |-> TRUE,
              cursor |-> Cursor(
                  HashAndHeight(fields[2], Unwrap(parse_u64(fields[1]))),
                  HashAndHeight(fields[4], Unwrap(parse_u64(fields[3]))))]

\* impl TryFrom<String> for Cursor
cursor_try_from(value) ==
    LET fields == split(value, ":")
    IN  IF Len(fields) # 4 THEN [ok |-> FALSE, err |-> "invalid cursor"]
        ELSE IF ~IsSome(parse_u64(fields[1]))
             THEN [ok |-> FALSE, err |-> "invalid block height"]
        ELSE IF ~IsSome(parse_u64(fields[3]))
             THEN [ok |-> FALSE, err |-> "invalid finalized block height"]
        ELSE [ok |-> TRUE,
              cursor |-> Cursor(
                  HashAndHeight(fields[2], Unwrap(parse_u64(fields[1]))),
                  HashAndHeight(fields[4], Unwrap(parse_u64(fields[3]))))]

(***************************************************************************)
(* The archive's blocks: finalized, one block per height.                  *)
(***************************************************************************)
\* The hash of the finalized block at height n, as the archive prints it.
ArchiveHash(n) == <<"0", "x", "a">> \o to_string(n)

ArchiveBlock(n) ==
    [number |-> n, hash |-> ArchiveHash(n),
     parent_hash |-> IF n = 0 THEN <<"0", "x">> ELSE ArchiveHash(n - 1)]

(***************************************************************************)
(* State.                                                                  *)
(***************************************************************************)
VARIABLES
    \* -- Firehose::blocks over the archive (src/src/firehose.rs) --
    request,          \* the Blocks request: start_block_num, stop_block_num, cursor
    fh_pc,            \* "call", "poll", "sleep", "done", "abort_resolve", "abort_query"
    from_block,       \* req.from_block
    to_block,         \* Option<u64>
    archive_height,   \* what GET {archive}/height answers
    fh_head,          \* the head the start resolution read (history)
    fh_out,           \* the responses yielded so far
    \* -- the upstream JSON-RPC node --
    up_canon,         \* its canonical chain: up_canon[n + 1] is block n
    up_blocks,        \* every block it has ever had (fetched by hash)
    up_forks,         \* the reorganizations so far
    \* -- the orchestrator's RPC phases (spec.md 4.8) --
    state,            \* Option<HashAndHeight>: the last finalized block emitted
    last_head,        \* last_head_seen
    rpc_to,           \* the upper end of the finalized catch-up
    \* -- RpcDataSource::get_hot_blocks and its ForkNavigator --
    nav_chain,        \* ForkNavigator.chain
    hot_pc,           \* "idle", "wait", "move", "done", "failed", "panic", "free"
    hot_from,         \* get_height_updates' from
    hot_top,          \* the head the loop is working towards
    hot_number,       \* the loop's number
    hot_retries,      \* retries of the current move
    hot_updates,      \* the HotUpdates yielded so far
    hot_fail,         \* the last attempt of the move, if it failed
    \* -- Cursor formatting and parsing (src/src/cursor.rs) --
    cur_pc,           \* "new", "formatted", "parsed"
    cur_cursor,       \* a Cursor value
    cur_value,        \* a string handed to Cursor::try_from
    cur_text,         \* cur_cursor.to_string()
    cur_back,         \* Cursor::try_from(cur_text)
    cur_result,       \* Cursor::try_from(cur_value)
    \* -- DataSource::get_finalized_blocks on its own --
    src_pc,           \* "loop", "sleep", "done", "panic"
    src_kind,         \* "archive", "portal", "rpc"
    src_stop_on_head, \* the stop_on_head argument
    src_req,          \* the DataRequest: from, to
    src_from,         \* req.from_block / query.from_block
    src_head,         \* the source's head
    src_out           \* the batches yielded: sequences of block numbers

arcVars == <<request, fh_pc, from_block, to_block, archive_height, fh_head, fh_out>>
upVars == <<up_canon, up_blocks, up_forks>>
orcVars == <<state, last_head, rpc_to>>
\* Fetch.Block: where the handler is, the request's reference, the archive
\* (its height and whether its answer is an error), the handler's outcome.
VARIABLES fet_pc, fet_reference, fet_archive, fet_result

\* ArchiveStream::blocks (src/src/stream.rs): where the spawned task awaits,
\* its BatchRequest, the height it read, the blocks of the batch still to
\* send and the batch's last number, the channel's buffer, whether the
\* receiver lives, whether a send or an archive call has failed, the
\* archive's height, and the last number the consumer has received.
VARIABLES stm_pc, stm_req, stm_height, stm_blocks, stm_last_block_num,
          stm_chan, stm_rx, stm_send_err, stm_source_err, stm_archive,
          stm_received

curVars == <<cur_pc, cur_cursor, cur_value, cur_text, cur_back, cur_result>>
srcVars == <<src_pc, src_kind, src_stop_on_head, src_req, src_from, src_head, src_out>>
fetVars == <<fet_pc, fet_reference, fet_archive, fet_result>>
stmVars == <<stm_pc, stm_req, stm_height, stm_blocks, stm_last_block_num,
             stm_chan, stm_rx, stm_send_err, stm_source_err, stm_archive,
             stm_received>>
\* The metrics (src/src/metrics.rs): the gauge and the counter.
VARIABLES ACTIVE_REQUESTS, REQUESTS_COUNTER

metVars == <<ACTIVE_REQUESTS, REQUESTS_COUNTER>>
\* get_logs and get_traces (src/src/ds_rpc.rs): which of the two runs, the
\* requests of the DataRequest, and the list returned.
VARIABLES flt_pc, flt_requests, flt_result

fltVars == <<flt_pc, flt_requests, flt_result>>
\* The encoding of one transaction in Firehose::blocks (src/src/firehose.rs):
\* where it is, the archive's transaction with its traces, and the
\* TransactionTrace built from them.
VARIABLES enc_pc, enc_tx, enc_trace

encVars == <<enc_pc, enc_tx, enc_trace>>
\* The height tracker (HeightTracker, src/src/ds_rpc.rs): where its task
\* is, the inbox of (time, reply sender) messages, the message being served,
\* the cached height and the time of the last upstream call, the system
\* clock, each caller of height() with the timestamp it took, the replies
\* in the order sent, and the callers whose message made the task call
\* eth_blockNumber.
VARIABLES ht_pc, ht_rx, ht_serving, ht_last_height, ht_last_access,
          ht_clock, ht_caller, ht_time, ht_replies, ht_invoked

htVars == <<ht_pc, ht_rx, ht_serving, ht_last_height, ht_last_access,
            ht_clock, ht_caller, ht_time, ht_replies, ht_invoked>>
\* The stream of RpcDataSource::get_finalized_blocks past its clamp of the
\* range (src/src/ds_rpc.rs): where it is, the ranges still to fetch, the
\* strides of the group in flight with their results, the order in which
\* they completed, and the batches yielded.
VARIABLES str_pc, str_ranges, str_results, str_completed, str_out

strVars == <<str_pc, str_ranges, str_results, str_completed, str_out>>
\* A call of split_range (src/src/ds_rpc.rs): where it is, its arguments
\* and the ranges returned.
VARIABLES split_pc, split_from, split_to, split_ranges

splitVars == <<split_pc, split_from, split_to, split_ranges>>
\* Portal::stream (src/src/portal/client.rs): where it is, the lines of the
\* response, the chunks of bytes_stream() still to come, the line buffer and
\* the blocks yielded.
VARIABLES ptl_pc, ptl_lines, ptl_stream, ptl_line, ptl_out

ptlVars == <<ptl_pc, ptl_lines, ptl_stream, ptl_line, ptl_out>>
\* The conversion of a trace of the node into the source's Trace
\* (src/src/ds_rpc.rs) and its encoding as a Call (src/src/firehose.rs):
\* where it is, the node's trace, the Trace converted and the Call encoded.
VARIABLES trc_pc, trc_value, trc_trace, trc_call

trcVars == <<trc_pc, trc_value, trc_trace, trc_call>>
auxVars == <<curVars, srcVars, fetVars, stmVars, metVars, fltVars, encVars, htVars, strVars, splitVars, ptlVars, trcVars>>
hotVars == <<nav_chain, hot_pc, hot_from, hot_top, hot_number, hot_retries, hot_updates, hot_fail>>

StepNew == 1
StepUndo == 2

(***************************************************************************)
(* Start and stop resolution (src/src/firehose.rs:16-23, 147-153).         *)
(***************************************************************************)
\* i64::abs: the minimum value has no positive counterpart; a build with
\* overflow checks panics, a build without them returns the value unchanged.
i64_abs(x) ==
    IF x = I64Min
    THEN {[panic |-> TRUE, val |-> 0], [panic |-> FALSE, val |-> I64Min]}
    ELSE {[panic |-> FALSE, val |-> IF x < 0 THEN -x ELSE x]}

\* u64::try_from(i64): None stands for Err.
u64_try_from(x) == IF x < 0 THEN None ELSE Some(x)

\* The outcomes of resolve_negative_start_block_num; ok = FALSE is a panic.
resolve_negative_start_block_num(start_block_num, head) ==
    IF start_block_num < 0
    THEN {IF a.panic \/ ~IsSome(u64_try_from(a.val))
          THEN [ok |-> FALSE, val |-> 0]
          ELSE [ok |-> TRUE,
                val |-> saturating_sub(head, Unwrap(u64_try_from(a.val)))]
          : a \in i64_abs(start_block_num)}
    ELSE {[ok |-> TRUE, val |-> Unwrap(u64_try_from(start_block_num))]}

\* Firehose::blocks' to_block.
firehose_to_block(from, stop_block_num) ==
    IF from # stop_block_num /\ stop_block_num = 0
    THEN None
    ELSE Some(stop_block_num)

Response(step, block, cursor) == [step |-> step, block |-> block, cursor |-> cursor]

\* The response Firehose::blocks yields for an archive block.
archive_response(n) == Response(StepNew, ArchiveBlock(n), to_string(n))

RECURSIVE archive_responses(_, _)
archive_responses(from, to) ==
    IF from > to THEN <<>>
    ELSE <<archive_response(from)>> \o archive_responses(from + 1, to)

\* The last block an archive reply to a query from `from` may end with: the
\* archive answers with a contiguous run of blocks from..e, from <= e, that
\* ends at its height or at toBlock at the latest.
ArchiveReplyEnds(from, to, height) ==
    {e \in from .. (IF IsSome(to) THEN Min(height, Unwrap(to)) ELSE height) : TRUE}

(***************************************************************************)
(* The upstream JSON-RPC node: a canonical chain that grows and            *)
(* reorganizes.  A block made after the k-th reorganization carries the    *)
(* k-th letter in its hash; the blocks before any reorganization are the   *)
(* archive's.                                                              *)
(***************************************************************************)
Letters == <<"a", "b", "c", "d", "e">>
UpHash(n, k) == <<"0", "x", Letters[k + 1]>> \o to_string(n)
Block(number, hash, parent_hash) ==
    [number |-> number, hash |-> hash, parent_hash |-> parent_hash]

UpHead == Len(up_canon) - 1
Last(s) == s[Len(s)]

RECURSIVE Branch(_, _, _, _)
\* The blocks from..to of the k-th branch, atop the block hashed `parent`.
Branch(from, to, k, parent) ==
    IF from > to THEN <<>>
    ELSE <<Block(from, UpHash(from, k), parent)>>
             \o Branch(from + 1, to, k, UpHash(from, k))

SeqToSet(s) == {s[i] : i \in 1..Len(s)}

\* eth_getBlockByNumber / eth_getBlockByHash: None when the node has no
\* such block.
get_block_by_number(n) ==
    IF n + 1 <= Len(up_canon) THEN Some(up_canon[n + 1]) ELSE None
get_block_by_hash(h) ==
    IF \E b \in up_blocks : b.hash = h
    THEN Some(CHOOSE b \in up_blocks : b.hash = h)
    ELSE None

\* The chain's head moves up by one block.
UpExtend ==
    /\ UpHead < MaxHeight
    /\ LET b == Block(UpHead + 1, UpHash(UpHead + 1, up_forks), Last(up_canon).hash)
       IN  /\ up_canon' = Append(up_canon, b)
           /\ up_blocks' = up_blocks \cup {b}
    /\ UNCHANGED up_forks

\* The top `depth` blocks are replaced by a new branch that ends at newhead.
\* Blocks the archive holds are final.
UpReorg ==
    /\ up_forks < MaxForks
    /\ \E depth \in 1..MaxReorgDepth :
          /\ UpHead - depth >= archive_height
          /\ \E newhead \in (UpHead - depth + 1) .. Min(UpHead + 1, MaxHeight) :
                LET fp == UpHead - depth
                    br == Branch(fp + 1, newhead, up_forks + 1, up_canon[fp + 1].hash)
                IN  /\ up_canon' = SubSeq(up_canon, 1, fp + 1) \o br
                    /\ up_blocks' = up_blocks \cup SeqToSet(br)
    /\ up_forks' = up_forks + 1

(***************************************************************************)
(* ForkNavigator (src/src/ds_rpc.rs:715-821).                              *)
(***************************************************************************)
block_to_hash_and_height(b) == HashAndHeight(b.hash, b.number)

\* One get_block call of a move that has calls.left successful calls left
\* before one fails: calls.kind is "transport" for an error of the client,
\* "message" for an error made of a string (a block without a number, a
\* trace that is not supported: context(..), bail!(..)), "consistency" for
\* a node that answers with no block for the time being.
get_block(found, calls) ==
    IF calls.left = 0 THEN [kind |-> calls.kind]
    ELSE IF ~IsSome(found) THEN [kind |-> "consistency"]
    ELSE [kind |-> "ok", block |-> Unwrap(found)]

\* A fetched block joins new_blocks and its parent becomes best_head.
nav_push(st, got, pop) ==
    IF got.kind # "ok" THEN [st EXCEPT !.kind = got.kind]
    ELSE [st EXCEPT !.new_blocks = Append(@, got.block),
                    !.best_head = HashAndHeight(got.block.parent_hash,
                                                got.block.number - 1),
                    !.calls.left = @ - 1,
                    !.chain = IF pop THEN SubSeq(@, 1, Len(@) - 1) ELSE @]

RECURSIVE nav_walk_back(_)
\* while chain.last().height < best_head.height
nav_walk_back(st) ==
    IF st.kind # "ok" THEN st
    ELSE IF Last(st.chain).height < st.best_head.height
    THEN nav_walk_back(nav_push(st,
             get_block(get_block_by_hash(st.best_head.hash), st.calls), FALSE))
    ELSE st

RECURSIVE nav_unwind_reanchor(_)
\* A navigator that survives a fork below its anchor by taking the fork
\* point for its new anchor.
nav_unwind_reanchor(st) ==
    IF st.kind # "ok" THEN st
    ELSE IF st.chain = <<>> THEN [st EXCEPT !.chain = <<st.best_head>>]
    ELSE IF Last(st.chain).hash # st.best_head.hash
    THEN nav_unwind_reanchor(nav_push(st,
             get_block(get_block_by_hash(st.best_head.hash), st.calls), TRUE))
    ELSE st

RECURSIVE nav_unwind(_)
\* while chain.last().hash != best_head.hash; chain.last().unwrap() panics
\* once every element has been popped.
nav_unwind(st) ==
    IF st.kind # "ok" THEN st
    ELSE IF st.chain = <<>> THEN [st EXCEPT !.kind = "panic"]
    ELSE IF Last(st.chain).hash # st.best_head.hash
    THEN nav_unwind(nav_push(st,
             get_block(get_block_by_hash(st.best_head.hash), st.calls), TRUE))
    ELSE st

Reverse(s) == [i \in 1..Len(s) |-> s[Len(s) + 1 - i]]

\* A navigator that leaves new_blocks in the order of the fetches.
nav_new_blocks_unreversed(fetched) == fetched

\* new_blocks.reverse(): the blocks in ascending order (line 782).
nav_new_blocks(fetched) == Reverse(fetched)

\* A navigator that walks back to the tip's height and never unwinds.
nav_fetch_no_unwind(chain, best, calls) ==
    LET st0 == [kind |-> "ok", chain |-> chain, new_blocks |-> <<>>,
                best_head |-> Last(chain), calls |-> calls]
    IN  IF best > Last(chain).height
        THEN nav_walk_back(nav_push(st0,
                 get_block(get_block_by_number(best), calls), FALSE))
        ELSE st0

\* The first half of move: the fetches (lines 744-780).
nav_fetch(chain, best, calls) ==
    LET st0 == [kind |-> "ok", chain |-> chain, new_blocks |-> <<>>,
                best_head |-> Last(chain), calls |-> calls]
    IN  IF best > Last(chain).height
        THEN nav_unwind(nav_walk_back(nav_push(st0,
                 get_block(get_block_by_number(best), calls), FALSE)))
        ELSE st0

\* The finalization prune (lines 790-802); the chain is indexed from 0 in
\* the source.
nav_prune(chain, finalized) ==
    IF finalized > chain[1].height
    THEN LET finalized_pos == finalized - chain[1].height
         IN  IF finalized_pos >= Len(chain)
             THEN [kind |-> "panic", chain |-> chain]
             ELSE LET finalized_head == chain[finalized_pos + 1]
                  IN  IF finalized_head.height >= chain[1].height
                      THEN LET pos == finalized_head.height - chain[1].height
                           IN  IF pos > Len(chain)
                               THEN [kind |-> "panic", chain |-> chain]
                               ELSE [kind |-> "ok",
                                     chain |-> SubSeq(chain, pos + 1, Len(chain))]
                      ELSE [kind |-> "ok", chain |-> chain]
    ELSE [kind |-> "ok", chain |-> chain]

\* A navigator that answers a move without new blocks with its anchor.
nav_base_head_anchor(chain, new_blocks) ==
    IF new_blocks = <<>>
    THEN chain[1]
    ELSE HashAndHeight(new_blocks[1].parent_hash, new_blocks[1].number - 1)

\* base_head (lines 806-813), from the chain move has stored.
nav_base_head(chain, new_blocks) ==
    IF new_blocks = <<>>
    THEN Last(chain)
    ELSE HashAndHeight(new_blocks[1].parent_hash, new_blocks[1].number - 1)

HotUpdate(blocks, base_head, finalized_head) ==
    [blocks |-> blocks, base_head |-> base_head, finalized_head |-> finalized_head]

\* A navigator that pops from self.chain itself: a failed move leaves the
\* chain as far as it was unwound.
nav_move_in_place(chain, best, finalized, calls) ==
    LET f == nav_fetch(chain, best, calls)
    IN  IF f.kind # "ok" THEN [kind |-> f.kind, chain |-> f.chain]
        ELSE LET new_blocks == nav_new_blocks(f.new_blocks)
                 pushed == f.chain \o [i \in 1..Len(new_blocks) |->
                                          block_to_hash_and_height(new_blocks[i])]
                 p == nav_prune(pushed, finalized)
             IN  IF p.kind # "ok" THEN [kind |-> "panic", chain |-> chain]
                 ELSE [kind |-> "ok", chain |-> p.chain,
                       update |-> HotUpdate(new_blocks,
                                            nav_base_head(p.chain, new_blocks),
                                            p.chain[1])]

\* ForkNavigator::move: kind "ok" with the new chain and the update, or
\* "consistency" / "transport" / "message" (an Err, the chain untouched), or
\* "panic".
nav_move(chain, best, finalized, calls) ==
    LET f == nav_fetch(chain, best, calls)
    IN  IF f.kind # "ok" THEN [kind |-> f.kind, chain |-> chain]
        ELSE LET new_blocks == nav_new_blocks(f.new_blocks)
                 pushed == f.chain \o [i \in 1..Len(new_blocks) |->
                                          block_to_hash_and_height(new_blocks[i])]
                 p == nav_prune(pushed, finalized)
             IN  IF p.kind # "ok" THEN [kind |-> "panic", chain |-> chain]
                 ELSE [kind |-> "ok", chain |-> p.chain,
                       update |-> HotUpdate(new_blocks,
                                            nav_base_head(p.chain, new_blocks),
                                            p.chain[1])]

\* The cursor functions at rest.
CurIdle ==
    /\ cur_pc = "idle"
    /\ cur_cursor = Cursor(HashAndHeight(<<>>, 0), HashAndHeight(<<>>, 0))
    /\ cur_value = <<>>
    /\ cur_text = <<>>
    /\ cur_back = [ok |-> FALSE, err |-> ""]
    /\ cur_result = [ok |-> FALSE, err |-> ""]

\* No get_finalized_blocks on its own.
SrcIdle ==
    /\ src_pc = "idle"
    /\ src_kind = "none"
    /\ src_stop_on_head = FALSE
    /\ src_req = [from |-> 0, to |-> None]
    /\ src_from = 0
    /\ src_head = 0
    /\ src_out = <<>>

\* No Fetch.Block call.
FetIdle ==
    /\ fet_pc = "idle"
    /\ fet_reference = None
    /\ fet_archive = [height |-> 0, fails |-> FALSE]
    /\ fet_result = [kind |-> "none", number |-> 0, message |-> ""]

\* No ArchiveStream::blocks call.
StmIdle ==
    /\ stm_pc = "idle"
    /\ stm_req = [from |-> 0, to |-> None]
    /\ stm_height = 0
    /\ stm_blocks = <<>>
    /\ stm_last_block_num = 0
    /\ stm_chan = <<>>
    /\ stm_rx = "none"
    /\ stm_send_err = FALSE
    /\ stm_source_err = FALSE
    /\ stm_archive = 0
    /\ stm_received = None

\* The metrics as they are registered.
MetricsZero ==
    /\ ACTIVE_REQUESTS = 0
    /\ REQUESTS_COUNTER = 0

\* No get_logs or get_traces on its own.
FltIdle ==
    /\ flt_pc = "idle"
    /\ flt_requests = <<>>
    /\ flt_result = <<>>

\* No transaction being encoded.
EncIdle ==
    /\ enc_pc = "idle"
    /\ enc_tx = [status |-> 0, traces |-> <<>>]
    /\ enc_trace = [status |-> 0, calls |-> <<>>]

\* The height tracker's task waiting on an empty inbox, no caller yet.
HtIdle ==
    /\ ht_pc = "recv"
    /\ ht_rx = <<>>
    /\ ht_serving = <<>>
    /\ ht_last_height = 0
    /\ ht_last_access = 0
    /\ ht_clock = 0
    /\ ht_caller = <<>>
    /\ ht_time = <<>>
    /\ ht_replies = <<>>
    /\ ht_invoked = {}

\* No stride fetch of the RPC source under way.
StrIdle ==
    /\ str_pc = "idle"
    /\ str_ranges = <<>>
    /\ str_results = <<>>
    /\ str_completed = <<>>
    /\ str_out = <<>>

\* No call of split_range under way.
SplitIdle ==
    /\ split_pc = "idle"
    /\ split_from = 0
    /\ split_to = 0
    /\ split_ranges = <<>>

\* No portal response being read.
PtlIdle ==
    /\ ptl_pc = "idle"
    /\ ptl_lines = <<>>
    /\ ptl_stream = <<>>
    /\ ptl_line = <<>>
    /\ ptl_out = <<>>

\* No trace being converted.
TrcIdle ==
    /\ trc_pc = "idle"
    /\ trc_value = <<>>
    /\ trc_trace = <<>>
    /\ trc_call = <<>>

\* Everything outside the streams at rest.
AuxIdle == CurIdle /\ SrcIdle /\ FetIdle /\ StmIdle /\ MetricsZero /\ FltIdle /\ EncIdle /\ HtIdle /\ StrIdle /\ SplitIdle /\ PtlIdle /\ TrcIdle

\* No failed attempt; otherwise the kind of the failure, the retries made
\* before it and the sleep that followed it.
NoFail == [kind |-> "", retries |-> 0, delay |-> 0]

\* The RPC side at rest: what the archive-only specification holds it at.
RpcIdle ==
    /\ up_canon = <<ArchiveBlock(0)>>
    /\ up_blocks = {ArchiveBlock(0)}
    /\ up_forks = 0
    /\ state = None
    /\ last_head = HashAndHeight(<<>>, 0)
    /\ rpc_to = 0
    /\ nav_chain = <<>>
    /\ hot_pc = "idle"
    /\ hot_from = 0
    /\ hot_top = 0
    /\ hot_number = 0
    /\ hot_retries = 0
    /\ hot_updates = <<>>
    /\ hot_fail = NoFail

(***************************************************************************)
(* Firehose::blocks (src/src/firehose.rs:46-401).                          *)
(***************************************************************************)
\* The call: everything before the stream is returned.
Blocks ==
    /\ fh_pc = "call"
    /\ \E r \in resolve_negative_start_block_num(request.start_block_num,
                                                 archive_height) :
          IF r.ok
          THEN /\ from_block' = r.val
               /\ to_block' = firehose_to_block(r.val, request.stop_block_num)
               /\ fh_pc' = "poll"
          ELSE /\ fh_pc' = "abort_resolve"
               /\ UNCHANGED <<from_block, to_block>>
    /\ fh_head' = archive_height
    /\ UNCHANGED <<request, archive_height, fh_out>>
    /\ UNCHANGED <<upVars, orcVars, hotVars>>
    /\ UNCHANGED auxVars

\* One iteration of the stream's loop.
StreamPoll ==
    /\ fh_pc = "poll"
    /\ IF archive_height <= from_block
       THEN /\ fh_pc' = "sleep"
            /\ UNCHANGED <<from_block, fh_out>>
       ELSE IF ArchiveReplyEnds(from_block, to_block, archive_height) = {}
       THEN \* no block to index: blocks[blocks.len() - 1]
            /\ fh_pc' = "abort_query"
            /\ UNCHANGED <<from_block, fh_out>>
       ELSE \E last_block_num \in
                   ArchiveReplyEnds(from_block, to_block, archive_height) :
               /\ fh_out' = fh_out \o archive_responses(from_block, last_block_num)
               /\ IF to_block = Some(last_block_num)
                  THEN fh_pc' = "done" /\ UNCHANGED from_block
                  ELSE fh_pc' = "poll" /\ from_block' = last_block_num + 1
    /\ UNCHANGED <<request, to_block, archive_height, fh_head>>
    /\ UNCHANGED <<upVars, orcVars, hotVars>>
    /\ UNCHANGED auxVars

\* The 5 s sleep is over.
StreamWake ==
    /\ fh_pc = "sleep"
    /\ fh_pc' = "poll"
    /\ UNCHANGED <<request, from_block, to_block, archive_height, fh_head, fh_out>>
    /\ UNCHANGED <<upVars, orcVars, hotVars>>
    /\ UNCHANGED auxVars

\* The archive ingests one more block.
ArchiveGrow ==
    /\ archive_height < MaxArchive
    /\ archive_height' = archive_height + 1
    /\ UNCHANGED <<request, fh_pc, from_block, to_block, fh_head, fh_out>>
    /\ UNCHANGED <<upVars, orcVars, hotVars>>
    /\ UNCHANGED auxVars

\* A cursor a client may hold: the four-field form of a finalized block.
RequestCursors ==
    {<<>>} \cup
    {cursor_to_string(Cursor(HashAndHeight(ArchiveHash(c), c),
                             HashAndHeight(ArchiveHash(c), c))) : c \in 0..MaxCursor}

InitArc ==
    /\ request \in [start_block_num : I64Min..I64Max,
                    stop_block_num : 0..MaxStop,
                    cursor : RequestCursors]
    /\ fh_pc = "call"
    /\ from_block = 0
    /\ to_block = None
    /\ archive_height \in 0..MaxArchive
    /\ fh_head = 0
    /\ fh_out = <<>>
    /\ RpcIdle
    /\ AuxIdle

NextArc ==
    \/ Blocks
    \/ StreamPoll
    \/ StreamWake
    \/ ArchiveGrow

vars == <<arcVars, upVars, orcVars, hotVars, auxVars>>

SpecArc == InitArc /\ [][NextArc]_vars

(***************************************************************************)
(* The finalized sources.                                                  *)
(***************************************************************************)
\* get_finalized_height (src/src/ds_rpc.rs:22-28), of the tracker's height.
get_finalized_height(height) == saturating_sub(height, FinalityConfirmation)

RANGE_STEP == 100
STRIDE_GROUP == 5

RECURSIVE split_range_wide(_, _)
\* A splitter whose ranges hold one block more than the step.
split_range_wide(from, to) ==
    IF from > to THEN <<>>
    ELSE LET to_ == Min(from + RANGE_STEP, to)
         IN  <<<<from, to_>>>> \o split_range_wide(to_ + 1, to)

RECURSIVE split_range(_, _)
\* src/src/ds_rpc.rs:547-558
split_range(from, to) ==
    IF from > to THEN <<>>
    ELSE LET to_ == Min(from + RANGE_STEP - 1, to)
         IN  <<<<from, to_>>>> \o split_range(to_ + 1, to)

RECURSIVE RangesNumbers(_)
\* The block numbers of a list of ranges, in the order the strides are
\* appended.
RangesNumbers(ranges) ==
    IF ranges = <<>> THEN <<>>
    ELSE [i \in 1..(ranges[1][2] - ranges[1][1] + 1) |-> ranges[1][1] + i - 1]
             \o RangesNumbers(Tail(ranges))

\* The upper end of what RpcDataSource::get_finalized_blocks yields
\* (lines 578-583).
rpc_finalized_to(height, to) ==
    IF IsSome(to) THEN Min(height, Unwrap(to)) ELSE height

\* RpcDataSource::get_finalized_blocks, all its batches in order: the
\* blocks' numbers, or a panic when the node lacks one of them (get_blocks).
rpc_get_finalized_blocks(from, to) ==
    LET height == get_finalized_height(UpHead)
        to_ == rpc_finalized_to(height, to)
        numbers == IF from > to_ THEN <<>> ELSE RangesNumbers(split_range(from, to_))
    IN  IF \E i \in 1..Len(numbers) : ~IsSome(get_block_by_number(numbers[i]))
        THEN [kind |-> "panic", blocks |-> <<>>]
        ELSE [kind |-> "ok",
              blocks |-> [i \in 1..Len(numbers) |->
                             Unwrap(get_block_by_number(numbers[i]))]]

(***************************************************************************)
(* The orchestrator's emission (spec.md 4.8).                              *)
(***************************************************************************)
\* A finalized block: StepNew with cursor {block, finalized: block}.
finalized_response(b) ==
    Response(StepNew, b,
             cursor_to_string(Cursor(block_to_hash_and_height(b),
                                     block_to_hash_and_height(b))))

\* A HotUpdate: one StepUndo when base_head is not the last head seen, then
\* StepNew for every block.
hot_responses(update, last) ==
    (IF update.base_head # last
     THEN <<Response(StepUndo,
                     Block(last.height, <<>>, update.base_head.hash),
                     cursor_to_string(Cursor(update.base_head,
                                             update.finalized_head)))>>
     ELSE <<>>)
    \o [i \in 1..Len(update.blocks) |->
           Response(StepNew, update.blocks[i],
                    cursor_to_string(Cursor(
                        block_to_hash_and_height(update.blocks[i]),
                        update.finalized_head)))]

hot_last_head(update) ==
    IF update.blocks # <<>>
    THEN block_to_hash_and_height(Last(update.blocks))
    ELSE update.base_head

\* get_hot_blocks is opened on the state: a navigator of one element, and
\* get_height_updates from request.from (src/src/ds_rpc.rs:622-643).
HotStart(st, from) ==
    /\ nav_chain' = <<st>>
    /\ last_head' = st
    /\ hot_pc' = "wait"
    /\ hot_from' = from
    /\ UNCHANGED <<hot_top, hot_number, hot_retries, hot_updates, hot_fail>>

(***************************************************************************)
(* The orchestrator's phases.                                              *)
(***************************************************************************)
\* An archive loop that asks for its last block again.
archive_next_from_same(last_block_num) == last_block_num

\* req.from_block = last_block_num + 1 (src/src/ds_archive.rs:203).
archive_next_from(last_block_num) == last_block_num + 1

\* Phase 1: one iteration of ArchiveDataSource::get_finalized_blocks' loop
\* (src/src/ds_archive.rs:184-205), its batch emitted.
OrcArchiveBatch ==
    /\ fh_pc = "archive"
    /\ IF from_block > archive_height
       THEN /\ fh_pc' = "catchup"
            /\ UNCHANGED <<from_block, fh_out, state>>
       ELSE \E last_block_num \in
                   ArchiveReplyEnds(from_block, to_block, archive_height) :
               /\ fh_out' = fh_out \o
                     [i \in 1..(last_block_num - from_block + 1) |->
                         finalized_response(ArchiveBlock(from_block + i - 1))]
               /\ state' = Some(block_to_hash_and_height(ArchiveBlock(last_block_num)))
               /\ from_block' = archive_next_from(last_block_num)
               /\ fh_pc' = IF to_block = Some(last_block_num) THEN "done" ELSE "archive"
    /\ UNCHANGED <<request, to_block, archive_height, fh_head>>
    /\ UNCHANGED <<upVars, last_head, rpc_to, hotVars>>
    /\ UNCHANGED auxVars

\* Phase 2, its start: the catch-up range is fixed when the archive lagged
\* the RPC's finalized head; otherwise the hot stream is opened on the state.
OrcCatchUp ==
    /\ fh_pc = "catchup"
    /\ IF from_block <= get_finalized_height(UpHead)
       THEN /\ rpc_to' = rpc_finalized_to(get_finalized_height(UpHead), to_block)
            /\ fh_pc' = "drain"
            /\ UNCHANGED <<last_head, hotVars>>
       ELSE /\ fh_pc' = "hot"
            /\ HotStart(Unwrap(state), from_block)
            /\ UNCHANGED rpc_to
    /\ UNCHANGED <<request, from_block, to_block, archive_height, fh_head, fh_out>>
    /\ UNCHANGED <<upVars, state>>
    /\ UNCHANGED auxVars

\* Phase 2, the drain: RpcDataSource::get_finalized_blocks over from..rpc_to,
\* the state seeded with rpc_to and its hash, the hot stream opened.
OrcDrain ==
    /\ fh_pc = "drain"
    /\ LET got == rpc_get_finalized_blocks(from_block, Some(rpc_to))
           hash == get_block_by_number(rpc_to)
       IN  IF got.kind # "ok" \/ ~IsSome(hash)
           THEN /\ fh_pc' = "failed"
                /\ UNCHANGED <<from_block, fh_out, state, last_head, hotVars>>
           ELSE /\ fh_out' = fh_out \o [i \in 1..Len(got.blocks) |->
                                           finalized_response(got.blocks[i])]
                /\ state' = Some(HashAndHeight(Unwrap(hash).hash, rpc_to))
                /\ from_block' = rpc_to + 1
                /\ IF to_block = Some(rpc_to)
                   THEN /\ fh_pc' = "done"
                        /\ UNCHANGED <<last_head, hotVars>>
                   ELSE /\ fh_pc' = "hot"
                        /\ HotStart(HashAndHeight(Unwrap(hash).hash, rpc_to),
                                    rpc_to + 1)
    /\ UNCHANGED <<request, to_block, archive_height, fh_head>>
    /\ UNCHANGED <<upVars, rpc_to>>
    /\ UNCHANGED auxVars

(***************************************************************************)
(* RpcDataSource::get_hot_blocks (src/src/ds_rpc.rs:622-680).              *)
(***************************************************************************)
MAX_RETRIES == 10
RETRY_DELAY_MS == 200

\* What follows a failed move (lines 652-666): an error that is a string is
\* taken out by downcast::<&str>(); "consistency error" with retries left
\* is retried after a sleep; any other string, and "consistency error"
\* with no retry left, end the match arm, and the loop moves again at
\* once; an error that is no string ends the stream.
hot_on_error(kind, retries) ==
    IF kind = "transport" THEN "fail"
    ELSE IF kind = "consistency" /\ retries < MAX_RETRIES THEN "retry"
    ELSE "again"
\* Duration::from_millis(200 * retries), retries already incremented.
hot_retry_delay(retries) == RETRY_DELAY_MS * retries

\* The first number of the loop `for number in height + 1..top`.
hot_first_number(height) == height + 1

\* A range that includes top.
hot_in_range_inclusive(number, top) == number <= top

\* Whether the loop has a (next) number to move to: the range excludes top.
hot_in_range(number, top) == number < top

\* A finalized argument that follows the block moved to.
hot_finalized_arg_number(number, top) == Min(number, top)

\* The finalized argument of the move to number.
hot_finalized_arg(number, top) ==
    Min(number, saturating_sub(top, FinalityConfirmation))

\* A stream that returns only once the finalized head has passed request.to.
hot_covers_above(to, finalized_head) ==
    IsSome(to) /\ finalized_head.height > Unwrap(to)

\* The stream returns after an update whose finalized head covers request.to.
hot_covers(to, finalized_head) ==
    IsSome(to) /\ finalized_head.height >= Unwrap(to)

\* The numbers of get_block calls that succeed before the transport fails;
\* the last stands for no failure.
MoveCalls ==
    {[left |-> n, kind |-> "transport"] : n \in {0, 1, 2, MaxHeight + 2}}

\* The same, with every way the closure fails: by the client (transport), by
\* a conversion's message, or by the node's null answer ("consistency
\* error").
FaultCalls ==
    {[left |-> n, kind |-> k] : n \in {0, 1},
                                k \in {"transport", "message", "consistency"}}
        \cup {[left |-> MaxHeight + 2, kind |-> "transport"]}

\* get_height_updates yields the next head: HeightTracker::wait returns once
\* the height has reached `from`; the loop over height + 1..top begins.
HotHeight ==
    /\ fh_pc = "hot"
    /\ hot_pc = "wait"
    /\ UpHead >= hot_from
    /\ hot_top' = UpHead
    /\ hot_from' = UpHead + 1
    /\ IF hot_in_range(hot_first_number(Last(nav_chain).height), UpHead)
       THEN /\ hot_pc' = "move"
            /\ hot_number' = hot_first_number(Last(nav_chain).height)
            /\ hot_retries' = 0
       ELSE UNCHANGED <<hot_pc, hot_number, hot_retries>>
    /\ UNCHANGED <<nav_chain, hot_updates, hot_fail>>
    /\ UNCHANGED <<arcVars, upVars, orcVars>>
    /\ UNCHANGED auxVars

\* One attempt of nav.move(number, min(number, finalized)) and what follows
\* it: the update is yielded and emitted, or the move is retried, or the
\* stream ends.
hot_move(calls) ==
    LET r == nav_move(nav_chain, hot_number,
                      hot_finalized_arg(hot_number, hot_top), calls)
    IN  CASE r.kind = "ok" ->
               /\ nav_chain' = r.chain
               /\ hot_updates' = Append(hot_updates, r.update)
               /\ fh_out' = fh_out \o hot_responses(r.update, last_head)
               /\ last_head' = hot_last_head(r.update)
               /\ hot_retries' = 0
               /\ hot_fail' = NoFail
               /\ IF hot_covers(to_block, r.update.finalized_head)
                  THEN /\ hot_pc' = "done"
                       /\ fh_pc' = "done"
                       /\ UNCHANGED hot_number
                  ELSE /\ fh_pc' = fh_pc
                       /\ IF hot_in_range(hot_number + 1, hot_top)
                          THEN hot_pc' = "move" /\ hot_number' = hot_number + 1
                          ELSE hot_pc' = "wait" /\ UNCHANGED hot_number
          [] r.kind \in {"consistency", "message", "transport"} ->
               LET then == hot_on_error(r.kind, hot_retries)
               IN  /\ hot_retries' = IF then = "retry"
                                     THEN hot_retries + 1
                                     ELSE hot_retries
                   /\ hot_fail' = [kind |-> r.kind, retries |-> hot_retries,
                                   delay |-> IF then = "retry"
                                             THEN hot_retry_delay(hot_retries + 1)
                                             ELSE 0]
                   /\ hot_pc' = IF then = "fail" THEN "failed" ELSE hot_pc
                   /\ fh_pc' = IF then = "fail" THEN "failed" ELSE fh_pc
                   /\ UNCHANGED <<nav_chain, hot_updates, fh_out, last_head,
                                  hot_number>>
          [] r.kind = "panic" ->
               /\ hot_pc' = "panic"
               /\ fh_pc' = "failed"
               /\ UNCHANGED <<nav_chain, hot_updates, fh_out, last_head,
                              hot_retries, hot_number, hot_fail>>

\* One pass of the loop around nav.move, the closure failing by transport.
HotMove ==
    /\ fh_pc = "hot"
    /\ hot_pc = "move"
    /\ \E calls \in MoveCalls : hot_move(calls)
    /\ UNCHANGED <<request, from_block, to_block, archive_height, fh_head>>
    /\ UNCHANGED <<upVars, state, rpc_to, hot_from, hot_top>>
    /\ UNCHANGED auxVars

\* The same pass, the closure failing in any way.
HotMoveFaulty ==
    /\ fh_pc = "hot"
    /\ hot_pc = "move"
    /\ \E calls \in FaultCalls : hot_move(calls)
    /\ UNCHANGED <<request, from_block, to_block, archive_height, fh_head>>
    /\ UNCHANGED <<upVars, state, rpc_to, hot_from, hot_top>>
    /\ UNCHANGED auxVars

EnvExtend == UpExtend /\ UNCHANGED <<arcVars, orcVars, hotVars, auxVars>>
EnvReorg == UpReorg /\ UNCHANGED <<arcVars, orcVars, hotVars, auxVars>>

InitHot ==
    /\ archive_height \in 1..MaxHotArchive
    /\ from_block \in 0..(archive_height - 1)
    /\ to_block \in {None} \cup {Some(t) : t \in from_block..MaxHeight}
    /\ request = [start_block_num |-> from_block,
                  stop_block_num |-> IF IsSome(to_block) THEN Unwrap(to_block) ELSE 0,
                  cursor |-> <<>>]
    /\ fh_pc = "archive"
    /\ fh_head = 0
    /\ fh_out = <<>>
    /\ \E h \in archive_height..(archive_height + 1) :
          /\ up_canon = [i \in 1..(h + 1) |-> ArchiveBlock(i - 1)]
          /\ up_blocks = {ArchiveBlock(n) : n \in 0..h}
    /\ up_forks = 0
    /\ state = None
    /\ last_head = HashAndHeight(<<>>, 0)
    /\ rpc_to = 0
    /\ nav_chain = <<>>
    /\ hot_pc = "idle"
    /\ hot_from = 0
    /\ hot_top = 0
    /\ hot_number = 0
    /\ hot_retries = 0
    /\ hot_updates = <<>>
    /\ hot_fail = NoFail
    /\ AuxIdle

NextHot ==
    \/ OrcArchiveBatch
    \/ OrcCatchUp
    \/ OrcDrain
    \/ HotHeight
    \/ HotMove
    \/ EnvExtend
    \/ EnvReorg

SpecHot == InitHot /\ [][NextHot]_vars

\* The same with every failure of the closure.
NextHotFaulty ==
    \/ OrcArchiveBatch
    \/ OrcCatchUp
    \/ OrcDrain
    \/ HotHeight
    \/ HotMoveFaulty
    \/ EnvExtend
    \/ EnvReorg

SpecHotFaulty == InitHot /\ [][NextHotFaulty]_vars

(***************************************************************************)
(* The navigator driven call by call: any best, any finalized, against the *)
(* same upstream, its updates emitted as in the hot phase.                 *)
(***************************************************************************)
\* A transport that fails at the second call of a move, or never.
NavCalls == {[left |-> n, kind |-> "transport"] : n \in {1, MaxHeight + 2}}

\* One call of move and what the caller keeps of it: self.chain as the call
\* left it, and the update with the responses it gives.
nav_step(best, finalized, calls) ==
    LET r == nav_move(nav_chain, best, finalized, calls)
    IN  CASE r.kind = "ok" ->
               /\ nav_chain' = r.chain
               /\ hot_updates' = Append(hot_updates, r.update)
               /\ fh_out' = fh_out \o hot_responses(r.update, last_head)
               /\ last_head' = hot_last_head(r.update)
               /\ UNCHANGED hot_pc
          [] r.kind \in {"consistency", "transport", "message"} ->
               /\ nav_chain' = r.chain
               /\ UNCHANGED <<hot_updates, fh_out, last_head, hot_pc>>
          [] r.kind = "panic" ->
               /\ hot_pc' = "panic"
               /\ UNCHANGED <<nav_chain, hot_updates, fh_out, last_head>>

NavMove ==
    /\ hot_pc = "free"
    /\ Len(hot_updates) < MaxMoves
    /\ \E best \in 0..MaxBest, finalized \in 0..MaxBest, calls \in NavCalls :
          nav_step(best, finalized, calls)
    /\ UNCHANGED <<request, fh_pc, from_block, to_block, archive_height, fh_head>>
    /\ UNCHANGED <<upVars, state, rpc_to>>
    /\ UNCHANGED <<hot_from, hot_top, hot_number, hot_retries, hot_fail>>
    /\ UNCHANGED auxVars

InitNav ==
    /\ request = [start_block_num |-> 0, stop_block_num |-> 0, cursor |-> <<>>]
    /\ fh_pc = "hot"
    /\ from_block = 0
    /\ to_block = None
    /\ archive_height = 0
    /\ fh_head = 0
    /\ fh_out = <<>>
    /\ \E h \in {3} :
          /\ up_canon = [i \in 1..(h + 1) |-> ArchiveBlock(i - 1)]
          /\ up_blocks = {ArchiveBlock(n) : n \in 0..h}
    /\ up_forks = 0
    /\ \E s \in 1..2 :
          /\ state = Some(block_to_hash_and_height(up_canon[s + 1]))
          /\ last_head = block_to_hash_and_height(up_canon[s + 1])
          /\ nav_chain = <<block_to_hash_and_height(up_canon[s + 1])>>
    /\ rpc_to = 0
    /\ hot_pc = "free"
    /\ hot_from = 0
    /\ hot_top = 0
    /\ hot_number = 0
    /\ hot_retries = 0
    /\ hot_updates = <<>>
    /\ hot_fail = NoFail
    /\ AuxIdle

NextNav ==
    \/ NavMove
    \/ EnvReorg

SpecNav == InitNav /\ [][NextNav]_vars

\* Moves of a navigator on their own, a few of them, with the block fetch
\* failing at any call and in any way.
MaxNavMoves == 2

NavFaults ==
    {[left |-> n, kind |-> k] : n \in 0..2,
                                k \in {"transport", "message", "consistency"}}
        \cup {[left |-> MaxHeight + 2, kind |-> "transport"]}

NavMoveFaulty ==
    /\ hot_pc = "free"
    /\ Len(hot_updates) < MaxNavMoves
    /\ \E best \in 0..MaxBest, finalized \in 0..MaxBest, calls \in NavFaults :
          nav_step(best, finalized, calls)
    /\ UNCHANGED <<request, fh_pc, from_block, to_block, archive_height, fh_head>>
    /\ UNCHANGED <<upVars, state, rpc_to>>
    /\ UNCHANGED <<hot_from, hot_top, hot_number, hot_retries, hot_fail>>
    /\ UNCHANGED auxVars

NextMove ==
    \/ NavMoveFaulty
    \/ EnvReorg

SpecMove == InitNav /\ [][NextMove]_vars

\* The call returns and the stream is polled as long as it is not done; the
\* archive need not grow.
SpecArcFair ==
    SpecArc /\ WF_vars(Blocks) /\ WF_vars(StreamPoll) /\ WF_vars(StreamWake)


(***************************************************************************)
(* Cursor formatting and parsing on their own: a cursor is formatted and   *)
(* parsed back, or a string is parsed.                                     *)
(***************************************************************************)
StringsOver(chars, n) == UNION {[1..k -> chars] : k \in 0..n}
ValueChars == {"1", "9", "a", ":", "+"}
HashChars == {"a", ":"}
CursorHeights == {0, 1, 9, 10, U64Max}
CursorHeads ==
    {HashAndHeight(h, n) : h \in StringsOver(HashChars, MaxHashLen), n \in CursorHeights}

\* cursor.to_string()
CursorFormat ==
    /\ cur_pc = "new"
    /\ cur_text' = cursor_to_string(cur_cursor)
    /\ cur_pc' = "formatted"
    /\ UNCHANGED <<cur_cursor, cur_value, cur_back, cur_result>>
    /\ UNCHANGED <<arcVars, upVars, orcVars, hotVars, srcVars, fetVars, stmVars, metVars, fltVars, encVars, htVars, strVars, splitVars, ptlVars, trcVars>>

\* Cursor::try_from of the formatted cursor
CursorParseBack ==
    /\ cur_pc = "formatted"
    /\ cur_back' = cursor_try_from(cur_text)
    /\ cur_pc' = "parsed"
    /\ UNCHANGED <<cur_cursor, cur_value, cur_text, cur_result>>
    /\ UNCHANGED <<arcVars, upVars, orcVars, hotVars, srcVars, fetVars, stmVars, metVars, fltVars, encVars, htVars, strVars, splitVars, ptlVars, trcVars>>

\* Cursor::try_from of a given string
CursorTryFrom ==
    /\ cur_pc = "given"
    /\ cur_result' = cursor_try_from(cur_value)
    /\ cur_pc' = "tried"
    /\ UNCHANGED <<cur_cursor, cur_value, cur_text, cur_back>>
    /\ UNCHANGED <<arcVars, upVars, orcVars, hotVars, srcVars, fetVars, stmVars, metVars, fltVars, encVars, htVars, strVars, splitVars, ptlVars, trcVars>>

\* Everything but the cursor functions at rest.
StreamsIdle ==
    /\ request = [start_block_num |-> 0, stop_block_num |-> 0, cursor |-> <<>>]
    /\ fh_pc = "idle"
    /\ from_block = 0
    /\ to_block = None
    /\ archive_height = 0
    /\ fh_head = 0
    /\ fh_out = <<>>
    /\ RpcIdle

InitCursor ==
    /\ \/ /\ cur_pc = "new"
          /\ cur_cursor \in {Cursor(b, f) : b \in CursorHeads, f \in CursorHeads}
          /\ cur_value = <<>>
       \/ /\ cur_pc = "given"
          /\ cur_cursor = Cursor(HashAndHeight(<<>>, 0), HashAndHeight(<<>>, 0))
          /\ cur_value \in StringsOver(ValueChars, MaxValueLen)
    /\ cur_text = <<>>
    /\ cur_back = [ok |-> FALSE, err |-> ""]
    /\ cur_result = [ok |-> FALSE, err |-> ""]
    /\ StreamsIdle
    /\ TrcIdle
    /\ PtlIdle
    /\ SplitIdle
    /\ StrIdle
    /\ HtIdle
    /\ EncIdle
    /\ FltIdle
    /\ MetricsZero
    /\ SrcIdle
    /\ FetIdle
    /\ StmIdle

NextCursor ==
    \/ CursorFormat
    \/ CursorParseBack
    \/ CursorTryFrom

SpecCursor == InitCursor /\ [][NextCursor]_vars

(***************************************************************************)
(* DataSource::get_finalized_blocks on its own, polled to its end: the     *)
(* archive source, the portal source, the RPC source.                      *)
(***************************************************************************)
otherThanSrc == <<arcVars, upVars, orcVars, hotVars, curVars, fetVars, stmVars, metVars, fltVars, encVars, htVars, strVars, splitVars, ptlVars, trcVars>>

\* One iteration of ArchiveDataSource::get_finalized_blocks' loop
\* (src/src/ds_archive.rs:184-205).
ArchiveSrcBatch ==
    /\ src_kind = "archive"
    /\ src_pc = "loop"
    /\ IF src_from > src_head
       THEN src_pc' = "done" /\ UNCHANGED <<src_from, src_out>>
       ELSE IF ArchiveReplyEnds(src_from, src_req.to, src_head) = {}
       THEN src_pc' = "panic" /\ UNCHANGED <<src_from, src_out>>
       ELSE \E last_block_num \in ArchiveReplyEnds(src_from, src_req.to, src_head) :
               /\ src_out' = Append(src_out, Range(src_from, last_block_num))
               /\ IF src_req.to = Some(last_block_num)
                  THEN src_pc' = "done" /\ UNCHANGED src_from
                  ELSE src_pc' = "loop" /\ src_from' = archive_next_from(last_block_num)
    /\ UNCHANGED <<src_kind, src_stop_on_head, src_req, src_head>>
    /\ UNCHANGED otherThanSrc

\* The last block of a portal stream opened at from: the stream is a run of
\* blocks from..e, empty (e = from - 1) when the portal has none.
PortalReplyEnds(from, to, head) ==
    LET top == IF IsSome(to) THEN Min(head, Unwrap(to)) ELSE head
    IN  IF from > top THEN {from - 1} ELSE from..top

\* query.from_block after the blocks from..e have gone through the for
\* loop: the break at to_block comes before the assignment.
portal_next_from(from, e, to) ==
    IF e < from THEN from
    ELSE IF to = Some(e) THEN e
    ELSE e + 1

\* What follows the for loop: break, or sleep and continue.
portal_after_stream(stop_on_head) == IF stop_on_head THEN "done" ELSE "sleep"

\* One iteration of PortalDataSource::get_finalized_blocks' loop
\* (src/src/ds_portal.rs:228-253): one portal stream, a batch per block.
PortalSrcStream ==
    /\ src_kind = "portal"
    /\ src_pc = "loop"
    /\ Len(src_out) < MaxYield
    /\ \E e \in PortalReplyEnds(src_from, src_req.to, src_head) :
          /\ src_out' = src_out \o [i \in 1..(e - src_from + 1) |-> <<src_from + i - 1>>]
          /\ src_from' = portal_next_from(src_from, e, src_req.to)
    /\ src_pc' = portal_after_stream(src_stop_on_head)
    /\ UNCHANGED <<src_kind, src_stop_on_head, src_req, src_head>>
    /\ UNCHANGED otherThanSrc

\* The 30 s sleep is over.
PortalSrcWake ==
    /\ src_kind = "portal"
    /\ src_pc = "sleep"
    /\ src_pc' = "loop"
    /\ UNCHANGED <<src_kind, src_stop_on_head, src_req, src_from, src_head, src_out>>
    /\ UNCHANGED otherThanSrc

\* RpcDataSource::get_finalized_blocks (src/src/ds_rpc.rs:568-602), the
\* node's head being src_head: its strides, five of them to a batch.
RpcSrcRun ==
    /\ src_kind = "rpc"
    /\ src_pc = "loop"
    /\ LET to == rpc_finalized_to(get_finalized_height(src_head), src_req.to)
       IN  IF src_from > to
           THEN UNCHANGED <<src_out, src_from>>
           ELSE /\ src_out' = <<RangesNumbers(split_range(src_from, to))>>
                /\ src_from' = to + 1
    /\ src_pc' = "done"
    /\ UNCHANGED <<src_kind, src_stop_on_head, src_req, src_head>>
    /\ UNCHANGED otherThanSrc

\* The source ingests one more block.
SrcGrow ==
    /\ src_pc \in {"loop", "sleep"}
    /\ src_head < MaxSrcHead
    /\ src_head' = src_head + 1
    /\ UNCHANGED <<src_pc, src_kind, src_stop_on_head, src_req, src_from, src_out>>
    /\ UNCHANGED otherThanSrc

InitSrc ==
    /\ src_pc = "loop"
    /\ src_kind \in {"archive", "portal", "rpc"}
    /\ src_stop_on_head \in BOOLEAN
    /\ src_head \in 0..MaxSrcHead
    /\ \E f \in 0..MaxSrcHead :
          /\ src_from = f
          /\ src_req \in {[from |-> f, to |-> t] :
                             t \in {None} \cup {Some(n) : n \in f..MaxSrcHead}}
    /\ src_out = <<>>
    /\ StreamsIdle
    /\ TrcIdle
    /\ PtlIdle
    /\ SplitIdle
    /\ StrIdle
    /\ HtIdle
    /\ EncIdle
    /\ FltIdle
    /\ MetricsZero
    /\ CurIdle
    /\ FetIdle
    /\ StmIdle

NextSrc ==
    \/ ArchiveSrcBatch
    \/ PortalSrcStream
    \/ PortalSrcWake
    \/ RpcSrcRun
    \/ SrcGrow

SpecSrc == InitSrc /\ [][NextSrc]_vars

(***************************************************************************)
(* Properties of Firehose::blocks over the archive.                        *)
(***************************************************************************)
Numbers(out) == [i \in 1..Len(out) |-> out[i].block.number]
Returned == fh_pc \notin {"call", "abort_resolve"}

\* C6: when the request carries a non-empty cursor, the blocks streamed are
\* those above the cursor's block, cursor.block.height + 1 first, whatever
\* start_block_num is.
C6_ResumesAfterCursor ==
    request.cursor # <<>> =>
        LET c == cursor_try_from(request.cursor)
        IN  /\ c.ok
            /\ \A i \in 1..Len(fh_out) :
                  fh_out[i].block.number = c.cursor.block.height + i

\* C7: the cursor of every StepNew response of the archive phase parses as a
\* four-field cursor whose block and finalized are both the (hash, number)
\* of the response's block.
C7_ArchiveCursorFourFields ==
    \A i \in 1..Len(fh_out) :
        fh_out[i].step = StepNew =>
            LET c == cursor_try_from(fh_out[i].cursor)
                b == HashAndHeight(fh_out[i].block.hash, fh_out[i].block.number)
            IN  /\ c.ok
                /\ c.cursor.block = b
                /\ c.cursor.finalized = b

\* C8: a request with 0 < start <= stop, made when the archive's height is
\* at least stop, gets the blocks start..stop in ascending order, each
\* once, and then the stream ends.
C8_Pre ==
    /\ fh_pc = "call"
    /\ 0 < request.start_block_num
    /\ request.start_block_num <= request.stop_block_num
    /\ archive_height >= request.stop_block_num
C8_RangeDelivered ==
    C8_Pre ~> (/\ fh_pc = "done"
               /\ Numbers(fh_out) = Range(request.start_block_num,
                                          request.stop_block_num))

\* C9: the upper bound of the stream is stop_block_num when that is not 0,
\* and there is none when it is 0, whatever the start resolves to.
C9_StopZeroUnbounded ==
    Returned =>
        to_block = IF request.stop_block_num # 0
                   THEN Some(request.stop_block_num)
                   ELSE None

\* C10: every start_block_num of the i64 range resolves without an abort:
\* a negative one to max(0, head + start_block_num), any other to itself.
C10_ResolvedStart ==
    fh_pc # "call" =>
        /\ fh_pc # "abort_resolve"
        /\ (fh_out = <<>> /\ fh_pc \in {"poll", "sleep"}) =>
              from_block = IF request.start_block_num < 0
                           THEN Max(0, fh_head + request.start_block_num)
                           ELSE request.start_block_num

(***************************************************************************)
(* Properties of the response stream across the archive phase, the RPC     *)
(* catch-up and the hot phase.                                             *)
(***************************************************************************)
CursorOf(r) == cursor_try_from(r.cursor).cursor
IsNew(i) == fh_out[i].step = StepNew
IsUndo(i) == fh_out[i].step = StepUndo
\* A StepNew response of the hot phase: its block is above its finalized.
IsHotNew(i) == IsNew(i) /\ CursorOf(fh_out[i]).finalized.height < fh_out[i].block.number

C1_Witness ==
    /\ up_forks > 0
    /\ \E i \in 1..(Len(fh_out) - 1) : ~IsHotNew(i) /\ IsNew(i) /\ IsHotNew(i + 1)
    /\ \E i \in 1..(Len(fh_out) - 1) : IsHotNew(i) /\ IsHotNew(i + 1)

C3_FinalizedNeverDecreases ==
    /\ \A i \in 1..(Len(fh_out) - 1) :
          CursorOf(fh_out[i]).finalized.height
              <= CursorOf(fh_out[i + 1]).finalized.height
    /\ \A i \in 1..(Len(hot_updates) - 1) :
          hot_updates[i].finalized_head.height
              <= hot_updates[i + 1].finalized_head.height

C3_Witness ==
    /\ up_forks > 0
    /\ \E i \in 1..(Len(fh_out) - 1) : IsUndo(i)
    /\ \E i \in 1..(Len(hot_updates) - 1) :
          hot_updates[i].finalized_head.height
              < hot_updates[i + 1].finalized_head.height

LastHeadSeen ==
    IF hot_updates = <<>> THEN Unwrap(state)
    ELSE LET u == Last(hot_updates)
         IN  IF u.blocks # <<>> THEN block_to_hash_and_height(Last(u.blocks))
             ELSE u.base_head

\* C4: an update is emitted with one StepUndo, ahead of its StepNew
\* responses, when its base_head is not the last head seen, and with none
\* otherwise; an update without new blocks has the navigator's tip for
\* base_head and is emitted as no response at all.
C4_UndoIffBaseMoved ==
    [][Len(hot_updates') = Len(hot_updates) + 1 =>
          LET u == Last(hot_updates')
              new == SubSeq(fh_out', Len(fh_out) + 1, Len(fh_out'))
              undos == {i \in 1..Len(new) : new[i].step = StepUndo}
          IN  /\ undos = IF u.base_head # LastHeadSeen THEN {1} ELSE {}
              /\ Len(new) = Cardinality(undos) + Len(u.blocks)
              /\ u.blocks = <<>> =>
                    /\ u.base_head = Last(nav_chain')
                    /\ new = <<>>
    ]_vars

C4_Witness ==
    /\ \E i \in 1..Len(hot_updates) : hot_updates[i].blocks = <<>>
    /\ \E i \in 1..Len(fh_out) : IsUndo(i)

(***************************************************************************)
(* Properties of Cursor's Display and TryFrom.                             *)
(***************************************************************************)
HasColon(t) == \E i \in 1..Len(t) : t[i] = ":"

\* C11 as stated: for every cursor, whatever its hashes, parsing its
\* formatted form succeeds and gives the cursor back.
C11_RoundTripAnyHash ==
    cur_pc = "parsed" => (cur_back.ok /\ cur_back.cursor = cur_cursor)

\* C11, amended: for every cursor whose hashes hold no ':', parsing its
\* formatted form succeeds and gives the cursor back.
C11_RoundTrip ==
    (/\ cur_pc = "parsed"
     /\ ~HasColon(cur_cursor.block.hash)
     /\ ~HasColon(cur_cursor.finalized.hash)) =>
        (cur_back.ok /\ cur_back.cursor = cur_cursor)

C11_Witness ==
    /\ cur_pc = "parsed"
    /\ cur_cursor.block.hash = <<"a", "a">>
    /\ cur_cursor.finalized.hash = <<>>
    /\ cur_cursor.block.height = U64Max
    /\ cur_cursor.finalized.height = 10
    /\ cur_back.ok

\* The fields of a string, from the places of its colons.
ColonsOf(t) == {i \in 1..Len(t) : t[i] = ":"}
FieldCount(t) == Cardinality(ColonsOf(t)) + 1
NthColon(t, n) ==
    CHOOSE i \in ColonsOf(t) : Cardinality({j \in ColonsOf(t) : j < i}) = n - 1
FieldOf(t, n) ==
    SubSeq(t,
           IF n = 1 THEN 1 ELSE NthColon(t, n - 1) + 1,
           IF n = FieldCount(t) THEN Len(t) ELSE NthColon(t, n) - 1)

RECURSIVE Pow10(_)
Pow10(n) == IF n = 0 THEN 1 ELSE 10 * Pow10(n - 1)
RECURSIVE PlaceSum(_, _)
PlaceSum(d, i) ==
    IF i > Len(d) THEN 0
    ELSE DigitVal(d[i]) * Pow10(Len(d) - i) + PlaceSum(d, i + 1)
parse_digits(t) == IF t # <<>> /\ t[1] = "+" THEN SubSeq(t, 2, Len(t)) ELSE t
\* A base-10 unsigned integer of the height's type: digits, a '+' allowed
\* ahead of them, the value within u64.
IsHeightText(t) ==
    LET d == IF t # <<>> /\ t[1] = "+" THEN SubSeq(t, 2, Len(t)) ELSE t
    IN  /\ d # <<>>
        /\ \A i \in 1..Len(d) : d[i] \in DigitChars
        /\ PlaceSum(d, 1) <= U64Max

\* C12 as stated: parsing fails, with the error "invalid cursor", exactly
\* when the field count is not 4 or a height field is not a base-10
\* unsigned integer.
C12_InvalidCursorAlways ==
    cur_pc = "tried" =>
        /\ ~cur_result.ok <=>
              \/ FieldCount(cur_value) # 4
              \/ ~IsHeightText(FieldOf(cur_value, 1))
              \/ ~IsHeightText(FieldOf(cur_value, 3))
        /\ ~cur_result.ok => cur_result.err = "invalid cursor"

\* C12, amended: parsing fails exactly when the field count is not 4 (the
\* error is "invalid cursor"), or else the first field is not a height
\* ("invalid block height"), or else the third is not ("invalid finalized
\* block height"); every other string parses, to its four fields.
C12_ParseErrors ==
    cur_pc = "tried" =>
        IF FieldCount(cur_value) # 4
        THEN ~cur_result.ok /\ cur_result.err = "invalid cursor"
        ELSE IF ~IsHeightText(FieldOf(cur_value, 1))
        THEN ~cur_result.ok /\ cur_result.err = "invalid block height"
        ELSE IF ~IsHeightText(FieldOf(cur_value, 3))
        THEN ~cur_result.ok /\ cur_result.err = "invalid finalized block height"
        ELSE /\ cur_result.ok
             /\ cur_result.cursor.block.hash = FieldOf(cur_value, 2)
             /\ cur_result.cursor.finalized.hash = FieldOf(cur_value, 4)
             /\ cur_result.cursor.block.height
                    = PlaceSum(parse_digits(FieldOf(cur_value, 1)), 1)
             /\ cur_result.cursor.finalized.height
                    = PlaceSum(parse_digits(FieldOf(cur_value, 3)), 1)

C12_Witness ==
    /\ cur_pc = "tried"
    /\ FieldCount(cur_value) = 4
    /\ IsHeightText(FieldOf(cur_value, 1))
    /\ ~IsHeightText(FieldOf(cur_value, 3))
    /\ cur_result.err = "invalid finalized block height"

(***************************************************************************)
(* Properties of get_finalized_blocks.                                     *)
(***************************************************************************)
RECURSIVE Flatten(_)
Flatten(batches) ==
    IF batches = <<>> THEN <<>> ELSE Head(batches) \o Flatten(Tail(batches))
Yielded == Flatten(src_out)

\* C13: the archive and the portal source yield non-empty batches only,
\* and the numbers over all batches are req.from, req.from + 1, ... with
\* none twice and none skipped, whatever stop_on_head is.
C13_ContiguousBatches ==
    src_kind \in {"archive", "portal"} =>
        /\ \A i \in 1..Len(src_out) : src_out[i] # <<>>
        /\ Yielded = Range(src_req.from, src_req.from + Len(Yielded) - 1)

\* C14: once the block numbered req.to has been yielded the sequence has
\* ended, for every source and either stop_on_head; and with stop_on_head
\* the sequence never waits at the source's head for more blocks.
C14_Completes ==
    /\ (IsSome(src_req.to) /\ \E i \in 1..Len(Yielded) : Yielded[i] = Unwrap(src_req.to))
          => src_pc = "done"
    /\ src_stop_on_head => src_pc # "sleep"

(***************************************************************************)
(* Properties of the hot stream's handling of a failed move.               *)
(***************************************************************************)
\* C15: a move that fails with a consistency error is retried after
\* 200 ms times the retry number, ten times at most: when the attempt
\* after the tenth retry fails with a consistency error too, the stream
\* has ended in failure and the move is not attempted again.
C15_RetriesThenFails ==
    hot_fail.kind = "consistency" =>
        IF hot_fail.retries < 10
        THEN /\ hot_retries = hot_fail.retries + 1
             /\ hot_fail.delay = 200 * hot_retries
             /\ hot_pc = "move"
        ELSE hot_pc = "failed"

\* C16: a move that fails with anything but a consistency error ends the
\* stream with that failure: no further attempt, no further update.
C16_OtherErrorsFail ==
    hot_fail.kind \in {"transport", "message"} => hot_pc = "failed"


(***************************************************************************)
(* Fetch.Block (src/src/fetch.rs ArchiveFetch::block and src/src/          *)
(* firehose.rs Firehose::block, which resolve the number the same way).    *)
(***************************************************************************)
\* Highest block number a single-block request asks for.
MaxFetch == 3

\* single_block_request::Reference
BlockNumber(num) ==
    [kind |-> "BlockNumber", num |-> num, id |-> <<>>, cursor |-> <<>>]
BlockHashAndNumber(hash, num) ==
    [kind |-> "BlockHashAndNumber", num |-> num, id |-> hash, cursor |-> <<>>]
CursorReference(cursor) ==
    [kind |-> "Cursor", num |-> 0, id |-> <<>>, cursor |-> cursor]

\* An outcome of the handler: a response with the block of that number, or
\* the unwrap() that panicked.
FetchResponse(number) == [kind |-> "response", number |-> number, message |-> ""]
FetchPanic(at) == [kind |-> "panic", number |-> 0, message |-> at]

\* let block_num = match request.reference.as_ref().unwrap() { ... }: the
\* cursor's whole text is parsed as a u64.
block_num(reference) ==
    IF ~IsSome(reference) THEN [ok |-> FALSE, num |-> 0, at |-> "reference"]
    ELSE LET r == Unwrap(reference)
         IN  IF r.kind = "Cursor"
             THEN IF IsSome(parse_u64(r.cursor))
                  THEN [ok |-> TRUE, num |-> Unwrap(parse_u64(r.cursor)), at |-> ""]
                  ELSE [ok |-> FALSE, num |-> 0, at |-> "cursor"]
             ELSE [ok |-> TRUE, num |-> r.num, at |-> ""]

\* Archive::query: an error, or the blocks of from..to the archive holds.
archive_query(from, to, archive) ==
    IF archive.fails THEN [ok |-> FALSE, blocks |-> <<>>]
    ELSE [ok |-> TRUE,
          blocks |-> [i \in 1..Max(0, Min(to, archive.height) - from + 1)
                         |-> ArchiveBlock(from + i - 1)]]

\* The handler's body.
fetch_block(reference, archive) ==
    LET n == block_num(reference)
        reply == archive_query(n.num, n.num, archive)
    IN  IF ~n.ok THEN FetchPanic(n.at)
        ELSE IF ~reply.ok THEN FetchPanic("query")
        ELSE IF reply.blocks = <<>> THEN FetchPanic("nth(0)")
        ELSE FetchResponse(reply.blocks[1].number)

\* Fetch.Block is served.
FetchBlock ==
    /\ fet_pc = "called"
    /\ fet_result' = fetch_block(fet_reference, fet_archive)
    /\ fet_pc' = "done"
    /\ UNCHANGED <<fet_reference, fet_archive>>
    /\ UNCHANGED <<arcVars, upVars, orcVars, hotVars, curVars, srcVars, stmVars, metVars, fltVars, encVars, htVars, strVars, splitVars, ptlVars, trcVars>>

\* The cursors a client holds: of a block and a finalized block below it.
FetchCursors ==
    {cursor_to_string(Cursor(HashAndHeight(ArchiveHash(b), b),
                             HashAndHeight(ArchiveHash(f), f))) :
        b \in 0..MaxFetch, f \in 0..MaxFetch}

\* The references of a request: none; a number; a hash and a number, the
\* hash of that block or of another; a cursor, a number's digits, with or
\* without a sign, or neither.
FetchReferences ==
    {None}
      \cup {Some(BlockNumber(n)) : n \in 0..MaxFetch}
      \cup {Some(BlockHashAndNumber(ArchiveHash(m), n)) :
               m \in 0..MaxFetch, n \in 0..MaxFetch}
      \cup {Some(CursorReference(c)) :
               c \in FetchCursors
                    \cup {to_string(n) : n \in 0..MaxFetch}
                    \cup {<<"+">> \o to_string(n) : n \in 0..MaxFetch}
                    \cup {<<>>, <<"a">>, <<"1", ":", "a">>}}

InitFetch ==
    /\ fet_pc = "called"
    /\ fet_reference \in FetchReferences
    /\ fet_archive \in [height : 0..MaxFetch, fails : BOOLEAN]
    /\ fet_result = [kind |-> "none", number |-> 0, message |-> ""]
    /\ StreamsIdle
    /\ TrcIdle
    /\ PtlIdle
    /\ SplitIdle
    /\ StrIdle
    /\ HtIdle
    /\ EncIdle
    /\ FltIdle
    /\ MetricsZero
    /\ CurIdle
    /\ SrcIdle
    /\ StmIdle

NextFetch == FetchBlock

SpecFetch == InitFetch /\ [][NextFetch]_vars

(***************************************************************************)
(* C17. Fetch.Block returns the block whose number is resolved from the    *)
(* reference: num for BlockNumber and for BlockHashAndNumber, and the      *)
(* block height of the parsed four-field cursor for a Cursor.              *)
(***************************************************************************)
\* The number the reference stands for: num, or cursor.block.height.
ReferenceNumber(reference) ==
    IF ~IsSome(reference) THEN None
    ELSE LET r == Unwrap(reference)
         IN  IF r.kind # "Cursor" THEN Some(r.num)
             ELSE IF cursor_try_from(r.cursor).ok
                  THEN Some(cursor_try_from(r.cursor).cursor.block.height)
                  ELSE None

\* The archive answers and holds the block the reference stands for.
FetchAnswerable ==
    /\ IsSome(ReferenceNumber(fet_reference))
    /\ ~fet_archive.fails
    /\ Unwrap(ReferenceNumber(fet_reference)) <= fet_archive.height

\* C17: whenever the archive answers and holds the block the reference
\* stands for (num, or the block height of the four-field cursor), the
\* handler returns the block of that number.
C17_ReturnsReferencedBlock ==
    (fet_pc = "done" /\ FetchAnswerable)
        => fet_result = FetchResponse(Unwrap(ReferenceNumber(fet_reference)))

(***************************************************************************)
(* C18. Every internal failure of Fetch.Block is returned as an error      *)
(* status with message "operation failed".                                 *)
(***************************************************************************)
\* C18: a served Fetch.Block call has produced a response, or the error
\* status "operation failed"; it has never aborted.
C18_FailureIsStatus ==
    fet_pc = "done"
        => \/ fet_result.kind = "response"
           \/ fet_result.kind = "status" /\ fet_result.message = "operation failed"


(***************************************************************************)
(* The stream adapter (src/src/stream.rs ArchiveStream::blocks): a spawned *)
(* task queries the archive and sends each block into a channel of         *)
(* capacity 1; the consumer is the response stream tonic reads.            *)
(***************************************************************************)
\* tokio::sync::mpsc::channel(1)
CHANNEL_CAPACITY == 1

\* Whether send() finds room in the buffer as if it had no limit.
has_capacity_unbounded(chan) == TRUE

\* Whether send() finds room in the channel's buffer; it waits otherwise.
has_capacity(chan) == Len(chan) < CHANNEL_CAPACITY

\* The end of the loop's body, after the for: stop at to_block, sleep at the
\* archive's height, or move on.
stream_after_for(req, height, last_block_num) ==
    IF req.to = Some(last_block_num)
    THEN [pc |-> "exited", from |-> req.from]
    ELSE IF height <= last_block_num
         THEN [pc |-> "sleep", from |-> req.from]
         ELSE [pc |-> "height", from |-> last_block_num + 1]

\* A task that goes on whatever send() returned.
stream_after_send_unchecked(ok, rest, req, height, last_block_num) ==
    IF rest # <<>> THEN [pc |-> "send", from |-> req.from]
    ELSE stream_after_for(req, height, last_block_num)

\* What follows tx.send(..).await: break 'outer on Err, the next block of
\* the batch, or the end of the loop's body.
stream_after_send(ok, rest, req, height, last_block_num) ==
    IF ~ok THEN [pc |-> "exited", from |-> req.from]
    ELSE IF rest # <<>> THEN [pc |-> "send", from |-> req.from]
    ELSE stream_after_for(req, height, last_block_num)

\* archive.height().await.unwrap(): the height, or the panic that ends the
\* task.
ProdHeight ==
    /\ stm_pc = "height"
    /\ \/ /\ stm_height' = stm_archive
          /\ stm_pc' = "query"
          /\ UNCHANGED stm_source_err
       \/ /\ stm_source_err' = TRUE
          /\ stm_pc' = "exited"
          /\ UNCHANGED stm_height
    /\ UNCHANGED <<stm_req, stm_blocks, stm_last_block_num, stm_chan, stm_rx,
                   stm_send_err, stm_archive, stm_received>>
    /\ UNCHANGED <<arcVars, upVars, orcVars, hotVars, curVars, srcVars, fetVars, metVars, fltVars, encVars, htVars, strVars, splitVars, ptlVars, trcVars>>

\* archive.query(&req).await.unwrap() and blocks[blocks.len() - 1]: a batch,
\* or the panic on an error or on an empty answer.
ProdQuery ==
    /\ stm_pc = "query"
    /\ \/ \E e \in ArchiveReplyEnds(stm_req.from, stm_req.to, stm_archive) :
             /\ stm_blocks' = Range(stm_req.from, e)
             /\ stm_last_block_num' = e
             /\ stm_pc' = "send"
             /\ UNCHANGED stm_source_err
       \/ /\ stm_source_err' = TRUE
          /\ stm_pc' = "exited"
          /\ UNCHANGED <<stm_blocks, stm_last_block_num>>
    /\ UNCHANGED <<stm_req, stm_height, stm_chan, stm_rx, stm_send_err,
                   stm_archive, stm_received>>
    /\ UNCHANGED <<arcVars, upVars, orcVars, hotVars, curVars, srcVars, fetVars, metVars, fltVars, encVars, htVars, strVars, splitVars, ptlVars, trcVars>>

\* tx.send(Ok(Response {..})).await returns, and the task runs to its next
\* await.
ProdSend ==
    /\ stm_pc = "send"
    /\ stm_rx = "dropped" \/ has_capacity(stm_chan)
    /\ LET ok == stm_rx # "dropped"
           after == stream_after_send(ok, Tail(stm_blocks), stm_req,
                                      stm_height, stm_last_block_num)
       IN  /\ stm_send_err' = (stm_send_err \/ ~ok)
           /\ stm_chan' = IF ok THEN Append(stm_chan, Head(stm_blocks))
                          ELSE stm_chan
           /\ stm_blocks' = Tail(stm_blocks)
           /\ stm_pc' = after.pc
           /\ stm_req' = [stm_req EXCEPT !.from = after.from]
    /\ UNCHANGED <<stm_height, stm_last_block_num, stm_rx, stm_source_err,
                   stm_archive, stm_received>>
    /\ UNCHANGED <<arcVars, upVars, orcVars, hotVars, curVars, srcVars, fetVars, metVars, fltVars, encVars, htVars, strVars, splitVars, ptlVars, trcVars>>

\* tokio::time::sleep(Duration::from_secs(5)).await is over.
ProdWake ==
    /\ stm_pc = "sleep"
    /\ stm_pc' = "height"
    /\ UNCHANGED <<stm_req, stm_height, stm_blocks, stm_last_block_num,
                   stm_chan, stm_rx, stm_send_err, stm_source_err, stm_archive,
                   stm_received>>
    /\ UNCHANGED <<arcVars, upVars, orcVars, hotVars, curVars, srcVars, fetVars, metVars, fltVars, encVars, htVars, strVars, splitVars, ptlVars, trcVars>>

\* The response stream yields the buffered response.
ConsRecv ==
    /\ stm_rx = "open"
    /\ stm_chan # <<>>
    /\ stm_received' = Some(Head(stm_chan))
    /\ stm_chan' = Tail(stm_chan)
    /\ UNCHANGED <<stm_pc, stm_req, stm_height, stm_blocks, stm_last_block_num,
                   stm_rx, stm_send_err, stm_source_err, stm_archive>>
    /\ UNCHANGED <<arcVars, upVars, orcVars, hotVars, curVars, srcVars, fetVars, metVars, fltVars, encVars, htVars, strVars, splitVars, ptlVars, trcVars>>

\* The response stream ends: the buffer is empty and the sender is gone.
ConsEnd ==
    /\ stm_rx = "open"
    /\ stm_chan = <<>>
    /\ stm_pc = "exited"
    /\ stm_rx' = "ended"
    /\ UNCHANGED <<stm_pc, stm_req, stm_height, stm_blocks, stm_last_block_num,
                   stm_chan, stm_send_err, stm_source_err, stm_archive,
                   stm_received>>
    /\ UNCHANGED <<arcVars, upVars, orcVars, hotVars, curVars, srcVars, fetVars, metVars, fltVars, encVars, htVars, strVars, splitVars, ptlVars, trcVars>>

\* The consumer drops the response stream, and the buffer with it.
ConsDrop ==
    /\ stm_rx = "open"
    /\ stm_rx' = "dropped"
    /\ stm_chan' = <<>>
    /\ UNCHANGED <<stm_pc, stm_req, stm_height, stm_blocks, stm_last_block_num,
                   stm_send_err, stm_source_err, stm_archive, stm_received>>
    /\ UNCHANGED <<arcVars, upVars, orcVars, hotVars, curVars, srcVars, fetVars, metVars, fltVars, encVars, htVars, strVars, splitVars, ptlVars, trcVars>>

\* The archive gets a block.
StmGrow ==
    /\ stm_archive < MaxSrcHead
    /\ stm_archive' = stm_archive + 1
    /\ UNCHANGED <<stm_pc, stm_req, stm_height, stm_blocks, stm_last_block_num,
                   stm_chan, stm_rx, stm_send_err, stm_source_err, stm_received>>
    /\ UNCHANGED <<arcVars, upVars, orcVars, hotVars, curVars, srcVars, fetVars, metVars, fltVars, encVars, htVars, strVars, splitVars, ptlVars, trcVars>>

\* The task is spawned with the request's range and the channel is new.
InitStream ==
    /\ stm_pc = "height"
    /\ stm_req \in [from : 0..MaxSrcHead,
                     to : {None} \cup {Some(n) : n \in 1..MaxSrcHead}]
    /\ stm_height = 0
    /\ stm_blocks = <<>>
    /\ stm_last_block_num = 0
    /\ stm_chan = <<>>
    /\ stm_rx = "open"
    /\ stm_send_err = FALSE
    /\ stm_source_err = FALSE
    /\ stm_archive \in 0..MaxSrcHead
    /\ stm_received = None
    /\ StreamsIdle
    /\ TrcIdle
    /\ PtlIdle
    /\ SplitIdle
    /\ StrIdle
    /\ HtIdle
    /\ EncIdle
    /\ FltIdle
    /\ MetricsZero
    /\ CurIdle
    /\ SrcIdle
    /\ FetIdle

NextStream ==
    \/ ProdHeight
    \/ ProdQuery
    \/ ProdSend
    \/ ProdWake
    \/ ConsRecv
    \/ ConsEnd
    \/ ConsDrop
    \/ StmGrow

SpecStream == InitStream /\ [][NextStream]_vars

\* The spawned task is scheduled and the archive answers every call, with a
\* reply or an error; nothing is asked of the consumer or of the archive's
\* growth.
SpecStreamFair ==
    /\ SpecStream
    /\ WF_vars(ProdHeight)
    /\ WF_vars(ProdQuery)
    /\ WF_vars(ProdSend)
    /\ WF_vars(ProdWake)

(***************************************************************************)
(* C19. When the consumer drops the response stream or the source fails,   *)
(* the producer task eventually exits and the channel is closed; after a   *)
(* failed enqueue the producer issues no further upstream request.         *)
(***************************************************************************)
\* The sender lives in the task: the channel is closed once the task is over.
TaskExited == stm_pc = "exited"

\* The task awaits the answer to a request it has sent upstream.
UpstreamRequest == stm_pc \in {"height", "query"}

\* C19: once the consumer has dropped the stream the task eventually exits,
\* which closes the channel; once an archive call has failed the task has
\* exited; and once a send has failed the task has exited, so that it makes
\* no upstream request any more.
C19_ProducerExits ==
    /\ (stm_rx = "dropped") ~> TaskExited
    /\ [](stm_source_err => TaskExited)
    /\ [](stm_send_err => TaskExited /\ ~UpstreamRequest)

\* The stream was dropped, a send failed on it and the task is over.
C19_Witness ==
    /\ stm_rx = "dropped"
    /\ stm_send_err
    /\ TaskExited
    /\ IsSome(stm_received)

(***************************************************************************)
(* C20. At most one response is buffered between producer and consumer,    *)
(* and a producer blocked on the enqueue issues no upstream request.       *)
(***************************************************************************)
\* The task waits in send() for room in the buffer.
BlockedOnSend ==
    /\ stm_pc = "send"
    /\ stm_rx = "open"
    /\ Len(stm_chan) >= CHANNEL_CAPACITY

\* C20: the channel never buffers more than one response, and in no step
\* taken while the task is blocked in send() does the task pass to an
\* upstream request or change the range it asks for.
C20_Backpressure ==
    /\ [](Len(stm_chan) <= 1)
    /\ [][BlockedOnSend => (~UpstreamRequest' /\ stm_pc' = "send"
                              /\ stm_req' = stm_req)]_vars

\* The task is blocked: one response is buffered and more of the batch wait.
C20_Witness ==
    /\ BlockedOnSend
    /\ Len(stm_chan) = 1
    /\ Len(stm_blocks) >= 2


(***************************************************************************)
(* C21. ACTIVE_REQUESTS equals the number of streaming producers that have *)
(* started and not yet exited; REQUESTS_COUNTER equals the number of       *)
(* Blocks calls received.                                                  *)
(***************************************************************************)
\* The Blocks calls received, and the producers of them that still run.
BlocksCalls == IF stm_pc = "idle" THEN 0 ELSE 1
ProducersRunning == IF stm_pc \in {"idle", "exited"} THEN 0 ELSE 1

\* C21: at every moment the gauge counts the running producers and the
\* counter counts the Blocks calls received.
C21_MetricsCount ==
    /\ ACTIVE_REQUESTS = ProducersRunning
    /\ REQUESTS_COUNTER = BlocksCalls


(***************************************************************************)
(* The log and trace filters of the RPC source (src/src/ds_rpc.rs          *)
(* get_logs, get_traces) over the logs and traces the node holds in the    *)
(* range.                                                                  *)
(***************************************************************************)
\* Longest list of log or trace requests of a DataRequest.
MaxRequests == 2

FilterAddresses == {"X", "Y"}
FilterSelectors == {"s", "t"}

\* LogRequest { address, topic0 } and TraceRequest { address, sighash }; the
\* second list is kept in one field, `selector`, for both.
FilterRequest(address, selector) == [address |-> address, selector |-> selector]

\* The logs of the range, in the node's order.
NodeLogs ==
    << [address |-> "X", topic0 |-> "s"], [address |-> "X", topic0 |-> "t"],
       [address |-> "Y", topic0 |-> "s"], [address |-> "Y", topic0 |-> "t"] >>

\* The traces of the range, in the node's order: calls with an input of four
\* bytes or more (sighash), a call with a shorter input, a create. `key`
\* stands for (transaction_hash, trace_address).
NodeTraces ==
    << [key |-> 7, type |-> "create", to |-> "", sighash |-> None],
       [key |-> 6, type |-> "call", to |-> "Y", sighash |-> None],
       [key |-> 5, type |-> "call", to |-> "X", sighash |-> None],
       [key |-> 4, type |-> "call", to |-> "Y", sighash |-> Some("t")],
       [key |-> 3, type |-> "call", to |-> "Y", sighash |-> Some("s")],
       [key |-> 2, type |-> "call", to |-> "X", sighash |-> Some("t")],
       [key |-> 1, type |-> "call", to |-> "X", sighash |-> Some("s")] >>

\* eth_getLogs: a filter without addresses or without topic0 does not
\* constrain that field.
node_get_logs(filter) ==
    LET pass(log) ==
            /\ (~IsSome(filter.address) \/ log.address \in Unwrap(filter.address))
            /\ (~IsSome(filter.topic0) \/ log.topic0 \in Unwrap(filter.topic0))
    IN  SelectSeq(NodeLogs, pass)

\* trace_filter: toAddress, when not empty, keeps the traces sent to one of
\* the addresses.
node_trace_filter(to_address) ==
    LET pass(trace) == to_address = {} \/ trace.to \in to_address
    IN  SelectSeq(NodeTraces, pass)

\* The filter get_logs builds for one request.
logs_filter(log_request) ==
    [address |-> IF log_request.address # {}
                 THEN Some(log_request.address) ELSE None,
     topic0 |-> IF log_request.selector # {}
                THEN Some(log_request.selector) ELSE None]

RECURSIVE get_logs(_)
\* get_logs: the node's answers to the requests' filters, appended.
get_logs(requests) ==
    IF requests = <<>> THEN <<>>
    ELSE node_get_logs(logs_filter(Head(requests))) \o get_logs(Tail(requests))

\* The closure of get_traces' filter: a call with a sighash that some
\* request lists under an address it lists.
trace_selected(trace, requests) ==
    /\ trace.type = "call"
    /\ IsSome(trace.sighash)
    /\ \E i \in 1..Len(requests) :
          /\ trace.to \in requests[i].address
          /\ Unwrap(trace.sighash) \in requests[i].selector

\* traces.sort_by_key: ascending by key.
sort_by_key(traces) ==
    LET keys == {traces[i].key : i \in 1..Len(traces)}
        at(k) == CHOOSE i \in 1..Len(traces) : traces[i].key = k
        nth(n) == CHOOSE k \in keys : Cardinality({j \in keys : j < k}) = n - 1
    IN  [n \in 1..Len(traces) |-> traces[at(nth(n))]]

\* get_traces
get_traces(requests) ==
    IF requests = <<>> THEN <<>>
    ELSE LET address == UNION {requests[i].address : i \in 1..Len(requests)}
             selected(trace) == trace_selected(trace, requests)
         IN  sort_by_key(SelectSeq(node_trace_filter(address), selected))

GetLogs ==
    /\ flt_pc = "logs"
    /\ flt_result' = get_logs(flt_requests)
    /\ flt_pc' = "logs done"
    /\ UNCHANGED flt_requests
    /\ UNCHANGED <<arcVars, upVars, orcVars, hotVars, curVars, srcVars, fetVars, stmVars, metVars, encVars, htVars, strVars, splitVars, ptlVars, trcVars>>

GetTraces ==
    /\ flt_pc = "traces"
    /\ flt_result' = get_traces(flt_requests)
    /\ flt_pc' = "traces done"
    /\ UNCHANGED flt_requests
    /\ UNCHANGED <<arcVars, upVars, orcVars, hotVars, curVars, srcVars, fetVars, stmVars, metVars, encVars, htVars, strVars, splitVars, ptlVars, trcVars>>

FilterRequests ==
    {FilterRequest(a, s) : a \in SUBSET FilterAddresses, s \in SUBSET FilterSelectors}

InitFilter ==
    /\ flt_pc \in {"logs", "traces"}
    /\ flt_requests \in UNION {[1..n -> FilterRequests] : n \in 0..MaxRequests}
    /\ flt_result = <<>>
    /\ StreamsIdle
    /\ TrcIdle
    /\ PtlIdle
    /\ SplitIdle
    /\ StrIdle
    /\ HtIdle
    /\ EncIdle
    /\ MetricsZero
    /\ CurIdle
    /\ SrcIdle
    /\ FetIdle
    /\ StmIdle

NextFilter == GetLogs \/ GetTraces

SpecFilter == InitFilter /\ [][NextFilter]_vars

(***************************************************************************)
(* C22. An empty address list matches any address and an empty topic0 or   *)
(* sighash list matches any topic0 or sighash.                             *)
(***************************************************************************)
\* A request matches a field's value when its list is empty or holds it.
AnyOr(list, value) == list = {} \/ value \in list

\* The logs and the calls some request matches, an empty list meaning any.
MatchedLogs ==
    {NodeLogs[i] : i \in {i \in 1..Len(NodeLogs) :
        \E r \in 1..Len(flt_requests) :
            /\ AnyOr(flt_requests[r].address, NodeLogs[i].address)
            /\ AnyOr(flt_requests[r].selector, NodeLogs[i].topic0)}}
MatchedCalls ==
    {NodeTraces[i] : i \in {i \in 1..Len(NodeTraces) :
        /\ NodeTraces[i].type = "call"
        /\ IsSome(NodeTraces[i].sighash)
        /\ \E r \in 1..Len(flt_requests) :
              /\ AnyOr(flt_requests[r].address, NodeTraces[i].to)
              /\ AnyOr(flt_requests[r].selector, Unwrap(NodeTraces[i].sighash))}}

\* C22: get_logs returns the logs, and get_traces the calls, that some
\* request matches when an empty list of a request matches any value.
C22_EmptyMeansAny ==
    /\ flt_pc = "logs done" => SeqToSet(flt_result) = MatchedLogs
    /\ flt_pc = "traces done" => SeqToSet(flt_result) = MatchedCalls


(***************************************************************************)
(* The encoding of a transaction and its traces into a TransactionTrace    *)
(* (src/src/firehose.rs, Firehose::blocks).                                *)
(***************************************************************************)
\* Most traces of one transaction.
MaxTraces == 2

\* A trace of the archive, as far as the status goes.
ArchiveTrace(type, error, revert_reason) ==
    [type |-> type, error |-> error, revert_reason |-> revert_reason]

\* Some(pbcodec::Call { status_failed, status_reverted, .. })
encode_call(trace) ==
    [status_failed |-> IsSome(trace.error) \/ IsSome(trace.revert_reason),
     status_reverted |-> IsSome(trace.revert_reason)]

RECURSIVE encode_calls(_)
\* The filter_map over the transaction's traces: suicide and reward traces
\* give no call.
encode_calls(traces) ==
    IF traces = <<>> THEN <<>>
    ELSE IF Head(traces).type \in {"suicide", "reward"}
         THEN encode_calls(Tail(traces))
         ELSE <<encode_call(Head(traces))>> \o encode_calls(Tail(traces))

\* pbcodec::TransactionTrace { status: tx.status, calls, .. }
encode_transaction(tx) ==
    [status |-> tx.status, calls |-> encode_calls(tx.traces)]

EncodeTransaction ==
    /\ enc_pc = "tx"
    /\ enc_trace' = encode_transaction(enc_tx)
    /\ enc_pc' = "encoded"
    /\ UNCHANGED enc_tx
    /\ UNCHANGED <<arcVars, upVars, orcVars, hotVars, curVars, srcVars, fetVars, stmVars, metVars, fltVars, htVars, strVars, splitVars, ptlVars, trcVars>>

ArchiveTraces ==
    {ArchiveTrace(t, e, r) : t \in {"call", "create", "suicide"},
                             e \in {None, Some("e")}, r \in {None, Some("r")}}

\* The archive's transactions: status is the receipt's, 0 exactly when the
\* transaction's first trace, if the traces were fetched, has failed.
ArchiveTransactions ==
    {tx \in [status : {0, 1},
             traces : UNION {[1..n -> ArchiveTraces] : n \in 0..MaxTraces}] :
        tx.traces # <<>> =>
            (tx.status = 0 <=> (IsSome(tx.traces[1].error)
                                  \/ IsSome(tx.traces[1].revert_reason)))}

InitEncode ==
    /\ enc_pc = "tx"
    /\ enc_tx \in ArchiveTransactions
    /\ enc_trace = [status |-> 0, calls |-> <<>>]
    /\ StreamsIdle
    /\ TrcIdle
    /\ PtlIdle
    /\ SplitIdle
    /\ StrIdle
    /\ HtIdle
    /\ MetricsZero
    /\ CurIdle
    /\ SrcIdle
    /\ FetIdle
    /\ StmIdle
    /\ FltIdle

NextEncode == EncodeTransaction

SpecEncode == InitEncode /\ [][NextEncode]_vars

(***************************************************************************)
(* C23. The status of an encoded transaction trace is derived from its     *)
(* first call: Reverted(3), else Failed(2), else Succeeded(1); Unknown(0)  *)
(* without calls.                                                          *)
(***************************************************************************)
\* TransactionTraceStatus, from the first call.
StatusOfCalls(calls) ==
    IF calls = <<>> THEN 0
    ELSE IF calls[1].status_reverted THEN 3
    ELSE IF calls[1].status_failed THEN 2
    ELSE 1

\* C23: the status of an encoded transaction trace is the one its first
\* call gives, and Unknown(0) when it has no calls.
C23_StatusFromFirstCall ==
    enc_pc = "encoded" => enc_trace.status = StatusOfCalls(enc_trace.calls)


(***************************************************************************)
(* C24. A move to a best above the tip whose block descends from a block X *)
(* of the stored chain returns base_head = X and the blocks of the new     *)
(* branch above X in ascending order, and stores the old chain up to X     *)
(* followed by those blocks.                                               *)
(***************************************************************************)
RECURSIVE AncestorAt(_, _)
\* The block at height h on the branch that ends with block b, if the node
\* knows it.
AncestorAt(b, h) ==
    IF b.number = h THEN Some(b)
    ELSE IF b.number < h THEN None
    ELSE IF IsSome(get_block_by_hash(b.parent_hash))
         THEN AncestorAt(Unwrap(get_block_by_hash(b.parent_hash)), h)
         ELSE None

\* The positions of the stored chain whose block is on b's branch.
OnBranch(chain, b) ==
    {i \in 1..Len(chain) :
        /\ IsSome(AncestorAt(b, chain[i].height))
        /\ Unwrap(AncestorAt(b, chain[i].height)).hash = chain[i].hash}

\* The blocks of b's branch from height h up to b.
BranchFrom(b, h) ==
    [i \in 1..(b.number - h + 1) |-> Unwrap(AncestorAt(b, h + i - 1))]

HeadsOf(blocks) == [i \in 1..Len(blocks) |-> block_to_hash_and_height(blocks[i])]

\* The chain without what lies below height finalized.
FromFinalized(chain, finalized) ==
    IF finalized > chain[1].height
    THEN SubSeq(chain, finalized - chain[1].height + 1, Len(chain))
    ELSE chain

\* The moves to consider in a state: every best, finalized and failure of
\* the block fetch.
MoveArgs == (0..MaxBest) \X (0..MaxBest) \X NavFaults

\* The move args[1], args[2] returns an update for a best above the tip
\* whose block descends from a block of the stored chain.
C24_Case(args) ==
    /\ args[1] > Last(nav_chain).height
    /\ nav_move(nav_chain, args[1], args[2], args[3]).kind = "ok"
    /\ IsSome(get_block_by_number(args[1]))
    /\ OnBranch(nav_chain, Unwrap(get_block_by_number(args[1]))) # {}

\* What C24 says of the update and, given the chain the claim expects to be
\* stored, of the chain.
C24_Holds(args, stored(_, _)) ==
    LET r == nav_move(nav_chain, args[1], args[2], args[3])
        b == Unwrap(get_block_by_number(args[1]))
        x == CHOOSE i \in OnBranch(nav_chain, b) :
                 \A j \in OnBranch(nav_chain, b) : j <= i
        X == nav_chain[x]
    IN  /\ r.update.base_head = X
        /\ r.update.blocks = BranchFrom(b, X.height + 1)
        /\ \A i \in 1..Len(r.update.blocks) :
              r.update.blocks[i].parent_hash =
                  IF i = 1 THEN X.hash ELSE r.update.blocks[i - 1].hash
        /\ r.chain = stored(SubSeq(nav_chain, 1, x) \o HeadsOf(r.update.blocks),
                            args[2])

C24_Unpruned(chain, finalized) == chain

\* C24 as stated: the stored chain is the old chain up to X followed by the
\* new blocks.
C24_StoresWholeChain ==
    \A args \in MoveArgs : C24_Case(args) => C24_Holds(args, C24_Unpruned)

\* C24: such a move returns base_head = X and the blocks of the new branch
\* from X.height + 1 to best, ascending, each the child of the one before
\* and the first the child of X; the stored chain is the old chain up to X
\* followed by those blocks, without the elements below height finalized
\* when finalized is above the first element.
C24_MoveToFork ==
    \A args \in MoveArgs : C24_Case(args) => C24_Holds(args, FromFinalized)

\* A move has replaced a branch: its update starts below the tip the
\* chain had, and the chain was pruned.
C24_Witness ==
    /\ Len(hot_updates) >= 2
    /\ LET u == hot_updates[Len(hot_updates)]
           t == hot_updates[Len(hot_updates) - 1]
       IN  /\ Len(u.blocks) >= 2
           /\ t.blocks # <<>>
           /\ u.base_head.height < t.blocks[Len(t.blocks)].number
           /\ u.finalized_head.height > t.finalized_head.height


(***************************************************************************)
(* C25. After any moves and upstream answers the navigator's chain is      *)
(* non-empty, starts with the finalized head of the last update, which is  *)
(* not above the tip, and move never indexes or pops an empty chain.       *)
(***************************************************************************)
\* C25: the stored chain is non-empty, its first element is the
\* finalized_head of the last update and is not above its last element,
\* and no move has panicked on its chain.
C25_ChainNeverEmpty ==
    /\ hot_pc # "panic"
    /\ nav_chain # <<>>
    /\ hot_updates # <<>> =>
           nav_chain[1] = hot_updates[Len(hot_updates)].finalized_head
    /\ nav_chain[1].height <= Last(nav_chain).height


(***************************************************************************)
(* C26. A move that returns an error because a get_block call fails leaves *)
(* the stored chain exactly as it was before the call.                     *)
(***************************************************************************)
MoveErrors == {"consistency", "transport", "message"}

\* C26: whatever best and finalized are and whichever get_block call fails,
\* the first or one of the backward walk or of the unwinding, the chain
\* stored after a move that returns an error is the chain stored before;
\* and no step of the navigator changes the chain without an update.
C26_FailedMoveKeepsChain ==
    /\ [](\A args \in MoveArgs :
            nav_move(nav_chain, args[1], args[2], args[3]).kind \in MoveErrors
                => nav_move(nav_chain, args[1], args[2], args[3]).chain = nav_chain)
    /\ [][hot_updates' = hot_updates => nav_chain' = nav_chain]_vars

\* After an update, a move fails in the unwinding of a fork, when elements
\* of the chain have been popped.
C26_Witness ==
    /\ hot_updates # <<>>
    /\ \E args \in MoveArgs :
          /\ nav_move(nav_chain, args[1], args[2], args[3]).kind \in MoveErrors
          /\ Len(nav_fetch(nav_chain, args[1], args[3]).chain) < Len(nav_chain)


(***************************************************************************)
(* C27. No HotUpdate has a base_head below the finalized head reported by  *)
(* the previous update, and a move over a fork below the anchor returns no *)
(* update.                                                                 *)
(***************************************************************************)
\* The block at height best is on a branch that leaves the stored chain
\* below its first element.
ForksBelowAnchor(best) ==
    /\ best > Last(nav_chain).height
    /\ IsSome(get_block_by_number(best))
    /\ OnBranch(nav_chain, Unwrap(get_block_by_number(best))) = {}

\* C27: the base_head of every update is at or above the finalized_head of
\* the update before it, and of the state the navigator was made with; and
\* no move whose best is on a branch that forks below the anchor returns an
\* update.
C27_FinalizedNeverUndone ==
    /\ \A i \in 1..Len(hot_updates) :
          hot_updates[i].base_head.height >=
              (IF i = 1 THEN Unwrap(state).height
               ELSE hot_updates[i - 1].finalized_head.height)
    /\ \A args \in MoveArgs :
          ForksBelowAnchor(args[1])
              => nav_move(nav_chain, args[1], args[2], args[3]).kind # "ok"

\* After an update that moved the finalized head, the node has forked below
\* the anchor.
C27_Witness ==
    /\ hot_updates # <<>>
    /\ hot_updates[Len(hot_updates)].finalized_head.height > Unwrap(state).height
    /\ \E best \in 0..MaxBest : ForksBelowAnchor(best)

\* ------------------------------------------------------------------------
\* The height tracker of the RPC source (HeightTracker, src/src/ds_rpc.rs):
\* one task owns the cached height; height() sends it (time, reply sender)
\* and awaits the reply.
\* ------------------------------------------------------------------------

\* The number of height() calls made.
MaxCallers == 2

\* The last tick of the system clock.
MaxClock == 6

\* The highest block number the node answers eth_blockNumber with.
MaxUpstream == 2

\* The tracker's interval, Duration::from_secs(1), in clock ticks of half a
\* second.
interval == 2

Callers == 1..MaxCallers

\* The outcomes of client.get_block_number(): a block number or an error.
UpstreamResults ==
    {[ok |-> TRUE, number |-> n] : n \in 1..MaxUpstream}
        \cup {[ok |-> FALSE, number |-> 0]}

\* The clock moves on.
HtTick ==
    /\ ht_clock < MaxClock
    /\ ht_clock' = ht_clock + 1
    /\ UNCHANGED <<ht_pc, ht_rx, ht_serving, ht_last_height, ht_last_access,
                   ht_caller, ht_time, ht_replies, ht_invoked>>
    /\ UNCHANGED <<arcVars, upVars, orcVars, hotVars, curVars, srcVars, fetVars, stmVars, metVars, fltVars, encVars, strVars, splitVars, ptlVars, trcVars>>

\* height(): the caller reads the clock.
HeightNow(c) ==
    /\ ht_caller[c] = "idle"
    /\ ht_time' = [ht_time EXCEPT ![c] = ht_clock]
    /\ ht_caller' = [ht_caller EXCEPT ![c] = "now"]
    /\ UNCHANGED <<ht_pc, ht_rx, ht_serving, ht_last_height, ht_last_access,
                   ht_clock, ht_replies, ht_invoked>>
    /\ UNCHANGED <<arcVars, upVars, orcVars, hotVars, curVars, srcVars, fetVars, stmVars, metVars, fltVars, encVars, strVars, splitVars, ptlVars, trcVars>>

\* height(): self.tx.send((now, tx)).expect("the receiver dropped"); the
\* send fails, and the caller panics, when the task has gone.
HeightSend(c) ==
    /\ ht_caller[c] = "now"
    /\ IF ht_pc = "panic"
         THEN /\ ht_caller' = [ht_caller EXCEPT ![c] = "panic"]
              /\ UNCHANGED ht_rx
         ELSE /\ ht_rx' = Append(ht_rx, [caller |-> c, time |-> ht_time[c]])
              /\ ht_caller' = [ht_caller EXCEPT ![c] = "await"]
    /\ UNCHANGED <<ht_pc, ht_serving, ht_last_height, ht_last_access,
                   ht_clock, ht_time, ht_replies, ht_invoked>>
    /\ UNCHANGED <<arcVars, upVars, orcVars, hotVars, curVars, srcVars, fetVars, stmVars, metVars, fltVars, encVars, strVars, splitVars, ptlVars, trcVars>>

\* The future of height() is dropped at rx.await: the reply receiver goes
\* while the message is queued or being served.
HeightCancel(c) ==
    /\ ht_caller[c] = "await"
    /\ ht_pc # "panic"
    /\ ht_caller' = [ht_caller EXCEPT ![c] = "cancelled"]
    /\ UNCHANGED <<ht_pc, ht_rx, ht_serving, ht_last_height, ht_last_access,
                   ht_clock, ht_time, ht_replies, ht_invoked>>
    /\ UNCHANGED <<arcVars, upVars, orcVars, hotVars, curVars, srcVars, fetVars, stmVars, metVars, fltVars, encVars, strVars, splitVars, ptlVars, trcVars>>

\* height(): rx.await.expect("the sender dropped"): the task has gone and
\* the reply sender with it.
HeightSenderDropped(c) ==
    /\ ht_caller[c] = "await"
    /\ ht_pc = "panic"
    /\ ht_caller' = [ht_caller EXCEPT ![c] = "panic"]
    /\ UNCHANGED <<ht_pc, ht_rx, ht_serving, ht_last_height, ht_last_access,
                   ht_clock, ht_time, ht_replies, ht_invoked>>
    /\ UNCHANGED <<arcVars, upVars, orcVars, hotVars, curVars, srcVars, fetVars, stmVars, metVars, fltVars, encVars, strVars, splitVars, ptlVars, trcVars>>

\* tx.send(result).expect("the receiver dropped") in the task: the pc of the
\* task, the callers and the replies after it. A dropped receiver panics the
\* task.
tracker_send(msg, result) ==
    IF ht_caller[msg.caller] = "cancelled"
      THEN [pc |-> "panic", caller |-> ht_caller, replies |-> ht_replies]
      ELSE [pc |-> "recv",
            caller |-> [ht_caller EXCEPT ![msg.caller] = "replied"],
            replies |-> Append(ht_replies,
                               [caller |-> msg.caller, ok |-> result.ok,
                                height |-> result.number])]

\* One message of the task's loop up to its first await: the cache is
\* answered when it is no older than the interval, otherwise
\* eth_blockNumber is called.
TrackerRecv ==
    /\ ht_pc = "recv"
    /\ ht_rx # <<>>
    /\ LET msg == Head(ht_rx)
           diff == saturating_sub(msg.time, ht_last_access)
           sent == tracker_send(msg, [ok |-> TRUE, number |-> ht_last_height])
       IN  /\ ht_rx' = Tail(ht_rx)
           /\ IF diff > interval
                THEN /\ ht_pc' = "upstream"
                     /\ ht_serving' = <<msg>>
                     /\ ht_invoked' = ht_invoked \cup {msg.caller}
                     /\ UNCHANGED <<ht_caller, ht_replies>>
                ELSE /\ ht_pc' = sent.pc
                     /\ ht_caller' = sent.caller
                     /\ ht_replies' = sent.replies
                     /\ UNCHANGED <<ht_serving, ht_invoked>>
    /\ UNCHANGED <<ht_last_height, ht_last_access, ht_clock, ht_time>>
    /\ UNCHANGED <<arcVars, upVars, orcVars, hotVars, curVars, srcVars, fetVars, stmVars, metVars, fltVars, encVars, strVars, splitVars, ptlVars, trcVars>>

\* client.get_block_number() returns: an answer is cached with the time
\* and sent; an error is sent and the cache left as it was.
TrackerUpstream ==
    /\ ht_pc = "upstream"
    /\ \E r \in UpstreamResults :
        LET msg == ht_serving[1]
            sent == tracker_send(msg, r)
        IN  /\ ht_last_height' = IF r.ok THEN r.number ELSE ht_last_height
            /\ ht_last_access' = IF r.ok THEN ht_clock ELSE ht_last_access
            /\ ht_pc' = sent.pc
            /\ ht_caller' = sent.caller
            /\ ht_replies' = sent.replies
    /\ ht_serving' = <<>>
    /\ UNCHANGED <<ht_rx, ht_clock, ht_time, ht_invoked>>
    /\ UNCHANGED <<arcVars, upVars, orcVars, hotVars, curVars, srcVars, fetVars, stmVars, metVars, fltVars, encVars, strVars, splitVars, ptlVars, trcVars>>

HeightNowAny == \E c \in Callers : HeightNow(c)

HeightSendAny == \E c \in Callers : HeightSend(c)

HeightCancelAny == \E c \in Callers : HeightCancel(c)

HeightSenderDroppedAny == \E c \in Callers : HeightSenderDropped(c)

\* The task just spawned, the clock well past the epoch, nobody calling.
InitTracker ==
    /\ ht_pc = "recv"
    /\ ht_rx = <<>>
    /\ ht_serving = <<>>
    /\ ht_last_height = 0
    /\ ht_last_access = 0
    /\ ht_clock = interval + 1
    /\ ht_caller = [c \in Callers |-> "idle"]
    /\ ht_time = [c \in Callers |-> 0]
    /\ ht_replies = <<>>
    /\ ht_invoked = {}
    /\ StreamsIdle
    /\ TrcIdle
    /\ PtlIdle
    /\ SplitIdle
    /\ StrIdle
    /\ MetricsZero
    /\ CurIdle
    /\ SrcIdle
    /\ FetIdle
    /\ StmIdle
    /\ FltIdle
    /\ EncIdle

NextTracker ==
    \/ HtTick
    \/ HeightNowAny
    \/ HeightSendAny
    \/ HeightCancelAny
    \/ HeightSenderDroppedAny
    \/ TrackerRecv
    \/ TrackerUpstream

SpecTracker == InitTracker /\ [][NextTracker]_vars

\* C28: the height tracker's task keeps serving: a caller of height() whose
\* future was dropped while its message was queued or being served does not
\* end the task, and no other caller of height() is left without a reply.
C28_TrackerKeepsServing ==
    /\ ht_pc # "panic"
    /\ \A c \in DOMAIN ht_caller : ht_caller[c] # "panic"

\* The callers of height() that have taken their timestamp.
Submitted == {c \in DOMAIN ht_caller : ht_caller[c] # "idle"}

\* C29: two height() calls whose timestamps differ by less than the
\* interval, in whatever order their messages are queued, make the task
\* call eth_blockNumber at most once between them.
C29_AtMostOneUpstreamCall ==
    \A a, b \in Submitted :
        (/\ a # b
         /\ ht_time[a] - ht_time[b] < interval
         /\ ht_time[b] - ht_time[a] < interval)
            => ~({a, b} \subseteq ht_invoked)

\* The heights sent to callers, in the order of the replies.
Delivered == SelectSeq(ht_replies, LAMBDA reply : reply.ok)

\* C30: in the order of the task's replies the heights delivered never
\* decrease, whatever eth_blockNumber answers.
C30_HeightsNeverDecrease ==
    \A i, j \in 1..Len(Delivered) :
        i < j => Delivered[i].height <= Delivered[j].height

\* ------------------------------------------------------------------------
\* The end of the hot stream.
\* ------------------------------------------------------------------------

\* The updates of the hot stream whose finalized head has reached request.to.
CoveringUpdates ==
    {i \in 1..Len(hot_updates) :
        /\ IsSome(to_block)
        /\ hot_updates[i].finalized_head.height >= Unwrap(to_block)}

\* C31: with request.to = T, get_hot_blocks ends right after the first
\* update it yields whose finalized_head is at height T or above: that
\* update is the last of the stream.
C31_EndsAtTo ==
    \A i \in CoveringUpdates : i = Len(hot_updates) /\ hot_pc = "done"

\* The stream has ended on its second or later update, the earlier ones
\* having finalized heads below request.to.
C31_Witness ==
    /\ Len(hot_updates) >= 2
    /\ CoveringUpdates = {Len(hot_updates)}
    /\ hot_pc = "done"

\* C32: with request.to = T, no update of the hot stream holds a block
\* whose number is above T.
C32_NoBlockAboveTo ==
    IsSome(to_block) =>
        \A i \in 1..Len(hot_updates) :
            \A j \in 1..Len(hot_updates[i].blocks) :
                hot_updates[i].blocks[j].number <= Unwrap(to_block)

\* The highest number of a block yielded by the hot stream, 0 for none.
HighestYielded ==
    LET numbers == UNION {{hot_updates[i].blocks[j].number :
                              j \in 1..Len(hot_updates[i].blocks)} :
                          i \in 1..Len(hot_updates)}
    IN  IF numbers = {} THEN 0 ELSE CHOOSE n \in numbers : \A m \in numbers : m <= n

\* C33: once the hot loop has taken a head height top from
\* get_height_updates, the navigator's tip and every block yielded are below
\* top: the block at height top waits for a higher head.
C33_TipBelowTop ==
    (hot_top > 0 /\ nav_chain # <<>>) =>
        /\ Last(nav_chain).height <= hot_top - 1
        /\ HighestYielded <= hot_top - 1

\* The loop over height + 1..top has moved up to top - 1 and waits for the
\* next head, the upstream chain holding a block at height top.
C33_Witness ==
    /\ hot_pc = "wait"
    /\ hot_top > 0
    /\ hot_updates # <<>>
    /\ Last(nav_chain).height = hot_top - 1
    /\ HighestYielded = hot_top - 1
    /\ UpHead >= hot_top

\* ------------------------------------------------------------------------
\* The producer of ArchiveStream::blocks at the archive's head.
\* ------------------------------------------------------------------------

\* C34: the responses reach the client with increasing block numbers: after
\* the back-off at the archive's height the producer sends only blocks above
\* the last one sent, and no block twice.
C34_NoBlockTwice ==
    [][(/\ stm_chan # <<>>
        /\ stm_chan' = Tail(stm_chan)
        /\ stm_received' = Some(Head(stm_chan))
        /\ IsSome(stm_received))
           => Head(stm_chan) > Unwrap(stm_received)]_vars

\* ------------------------------------------------------------------------
\* The stride fetches of RpcDataSource::get_finalized_blocks
\* (src/src/ds_rpc.rs): the range is split, and the ranges are fetched five
\* at a time.
\* ------------------------------------------------------------------------

\* The number of ranges the largest request splits into.
MaxStrides == 6

\* get_blocks / get_stride of one range: its blocks, in the order of
\* range.0..=range.1.
get_stride(range) == Range(range[1], range[2])

\* ranges.chunks(5): the next group.
stride_chunk(ranges) == SubSeq(ranges, 1, Min(STRIDE_GROUP, Len(ranges)))

\* The strides in flight: spawned and not completed.
InFlight == {i \in 1..Len(str_results) : str_results[i].state = "pending"}

\* A join that hands the results over as the futures complete.
join_all_as_completed(results, completed) ==
    [k \in 1..Len(results) |-> results[completed[k]]]

\* join_all(futures).await: the results in the order of the futures,
\* whatever the order of completion.
join_all(results, completed) == [k \in 1..Len(results) |-> results[k]]

\* for result in results { blocks.append(&mut result?) }: the blocks of the
\* group, or the first error.
stride_collect(results) ==
    IF \E k \in 1..Len(results) : results[k].state = "err"
    THEN [ok |-> FALSE, blocks |-> <<>>]
    ELSE [ok |-> TRUE,
          blocks |-> Flatten([k \in 1..Len(results) |-> results[k].blocks])]

\* The futures of the next group are made and polled by join_all.
StrideSpawn ==
    /\ str_pc = "chunk"
    /\ IF str_ranges = <<>>
       THEN /\ str_pc' = "done"
            /\ UNCHANGED <<str_results, str_completed>>
       ELSE /\ str_pc' = "join"
            /\ str_results' = [k \in 1..Len(stride_chunk(str_ranges)) |->
                                  [state |-> "pending", blocks |-> <<>>]]
            /\ str_completed' = <<>>
    /\ UNCHANGED <<str_ranges, str_out>>
    /\ UNCHANGED <<arcVars, upVars, orcVars, hotVars, curVars, srcVars, fetVars, stmVars, metVars, fltVars, encVars, htVars, splitVars, ptlVars, trcVars>>

\* One stride of the group completes, with its blocks or with an error.
StrideComplete ==
    /\ str_pc = "join"
    /\ \E i \in InFlight :
          /\ \E ok \in BOOLEAN :
                str_results' = [str_results EXCEPT ![i] =
                    IF ok THEN [state |-> "ok",
                                blocks |-> get_stride(str_ranges[i])]
                    ELSE [state |-> "err", blocks |-> <<>>]]
          /\ str_completed' = Append(str_completed, i)
    /\ UNCHANGED <<str_pc, str_ranges, str_out>>
    /\ UNCHANGED <<arcVars, upVars, orcVars, hotVars, curVars, srcVars, fetVars, stmVars, metVars, fltVars, encVars, htVars, splitVars, ptlVars, trcVars>>

\* join_all returns: the group's blocks are yielded, or the first error
\* ends the stream.
StrideYield ==
    /\ str_pc = "join"
    /\ InFlight = {}
    /\ LET got == stride_collect(join_all(str_results, str_completed))
       IN  IF got.ok
           THEN /\ str_out' = Append(str_out, got.blocks)
                /\ str_ranges' = SubSeq(str_ranges, Len(str_results) + 1,
                                        Len(str_ranges))
                /\ str_pc' = "chunk"
           ELSE /\ str_pc' = "failed"
                /\ UNCHANGED <<str_out, str_ranges>>
    /\ UNCHANGED <<str_results, str_completed>>
    /\ UNCHANGED <<arcVars, upVars, orcVars, hotVars, curVars, srcVars, fetVars, stmVars, metVars, fltVars, encVars, htVars, splitVars, ptlVars, trcVars>>

\* The ranges requested: from a block below or at a multiple of the step,
\* over one range, a few, or more than a group of them.
StrideRequests ==
    {<<from, from + span>> :
        from \in {0, 7},
        span \in {0, 2 * RANGE_STEP + 50, (MaxStrides - 1) * RANGE_STEP + 20}}

\* split_range(request.from, to) has been taken.
InitStride ==
    /\ str_pc = "chunk"
    /\ \E r \in StrideRequests : str_ranges = split_range(r[1], r[2])
    /\ str_results = <<>>
    /\ str_completed = <<>>
    /\ str_out = <<>>
    /\ StreamsIdle
    /\ TrcIdle
    /\ PtlIdle
    /\ SplitIdle
    /\ MetricsZero
    /\ CurIdle
    /\ SrcIdle
    /\ FetIdle
    /\ StmIdle
    /\ FltIdle
    /\ EncIdle
    /\ HtIdle

NextStride ==
    \/ StrideSpawn
    \/ StrideComplete
    \/ StrideYield

SpecStride == InitStride /\ [][NextStride]_vars

\* The blocks yielded so far, batch after batch.
StrideYielded == Flatten(str_out)

\* C35: at most five stride fetches are in flight; every batch yielded
\* lists the blocks of its group of ranges in ascending contiguous order,
\* whatever the order in which the strides completed, the groups follow one
\* another in ascending order, and no block of a group with a failed stride
\* (or of a group not yet joined) is yielded.
C35_GroupsInOrder ==
    /\ Cardinality(InFlight) <= STRIDE_GROUP
    /\ \A k \in 1..(Len(StrideYielded) - 1) :
          StrideYielded[k + 1] = StrideYielded[k] + 1
    /\ \A b \in 1..Len(str_out) :
          /\ str_out[b] # <<>>
          /\ Len(str_out[b]) <= STRIDE_GROUP * RANGE_STEP
          /\ (b < Len(str_out) \/ str_ranges # <<>>)
                => Len(str_out[b]) = STRIDE_GROUP * RANGE_STEP
    /\ (str_ranges # <<>> /\ str_out # <<>>)
          => StrideYielded[Len(StrideYielded)] + 1 = str_ranges[1][1]
    /\ str_pc = "failed"
          => /\ str_ranges # <<>>
             /\ \A k \in 1..Len(StrideYielded) :
                   StrideYielded[k] < str_ranges[1][1]

\* A full group has been yielded whose strides completed last to first, and
\* a range is left for the next group.
C35_Witness ==
    /\ str_pc = "chunk"
    /\ Len(str_out) = 1
    /\ str_completed = <<5, 4, 3, 2, 1>>
    /\ str_ranges # <<>>

\* ------------------------------------------------------------------------
\* The finality of the hot stream.
\* ------------------------------------------------------------------------

\* The updates of the hot stream whose finalized head is above the seed.
FinalizedAboveSeed ==
    {i \in 1..Len(hot_updates) :
        hot_updates[i].finalized_head.height > Unwrap(state).height}

\* C36: a finalized_head of the hot stream above the seed state is at
\* least finality_confirmation blocks below the head observed before its
\* update.
C36_FinalizedBelowTop ==
    \A i \in FinalizedAboveSeed :
        hot_updates[i].finalized_head.height <= hot_top - FinalityConfirmation

\* The last update has moved the finalized head above the seed, to exactly
\* finality_confirmation below the observed head.
C36_Witness ==
    /\ hot_updates # <<>>
    /\ Len(hot_updates) \in FinalizedAboveSeed
    /\ hot_updates[Len(hot_updates)].finalized_head.height
          = hot_top - FinalityConfirmation

\* ------------------------------------------------------------------------
\* The links of the navigator's chain.
\* ------------------------------------------------------------------------

\* Whether a chain element is the (hash, number) of a fetched block whose
\* parent is the element before it.
LinkedTo(prev, elem) ==
    /\ elem.height = prev.height + 1
    /\ \E b \in up_blocks :
          /\ b.hash = elem.hash
          /\ b.number = elem.height
          /\ b.parent_hash = prev.hash

\* C37: the heights of consecutive elements of the navigator's chain differ
\* by one, and every element after the first is a fetched block whose
\* parent_hash is the hash of the element before it.
C37_ChainLinked ==
    \A k \in 2..Len(nav_chain) : LinkedTo(nav_chain[k - 1], nav_chain[k])

\* A move has replaced elements of the chain by a fork's and left a chain of
\* three elements or more.
C37_Witness ==
    /\ Len(nav_chain) >= 3
    /\ Len(hot_updates) >= 2
    /\ LET u == hot_updates[Len(hot_updates)]
       IN  /\ Len(u.blocks) >= 2
           /\ u.base_head.height < u.blocks[Len(u.blocks)].number - 1
           /\ \E b \in up_blocks : b.number = u.blocks[1].number
                                     /\ b.hash # u.blocks[1].hash

\* ------------------------------------------------------------------------
\* split_range (src/src/ds_rpc.rs) on its own.
\* ------------------------------------------------------------------------

\* The longest range split, as the number of blocks after its first.
MaxSpan == 250

\* The first blocks of the ranges split: at, next to and far from the
\* multiples of the step.
SplitFroms == {0, 1, 99, 100, 1000}

\* let ranges = split_range(from, to)
SplitRange ==
    /\ split_pc = "call"
    /\ split_ranges' = split_range(split_from, split_to)
    /\ split_pc' = "returned"
    /\ UNCHANGED <<split_from, split_to>>
    /\ UNCHANGED <<arcVars, upVars, orcVars, hotVars, curVars, srcVars, fetVars, stmVars, metVars, fltVars, encVars, htVars, strVars, ptlVars, trcVars>>

\* Any from <= to, as assert!(from <= to) asks.
InitSplit ==
    /\ split_pc = "call"
    /\ split_from \in SplitFroms
    /\ split_to \in split_from..(split_from + MaxSpan)
    /\ split_ranges = <<>>
    /\ StreamsIdle
    /\ TrcIdle
    /\ PtlIdle
    /\ MetricsZero
    /\ CurIdle
    /\ SrcIdle
    /\ FetIdle
    /\ StmIdle
    /\ FltIdle
    /\ EncIdle
    /\ HtIdle
    /\ StrIdle

NextSplit == SplitRange

SpecSplit == InitSplit /\ [][NextSplit]_vars

\* C38: for a <= b, split_range(a, b) is a list of ranges in ascending
\* order, each of one to 100 blocks, each beginning right after the one
\* before it, the first at a and the last ending at b; and
\* split_range(1000, 1250) is (1000,1099), (1100,1199), (1200,1250).
C38_SplitCoversRange ==
    split_pc = "returned" =>
        /\ split_ranges # <<>>
        /\ split_ranges[1][1] = split_from
        /\ split_ranges[Len(split_ranges)][2] = split_to
        /\ \A k \in 1..Len(split_ranges) :
              /\ split_ranges[k][1] <= split_ranges[k][2]
              /\ split_ranges[k][2] - split_ranges[k][1] + 1 <= 100
        /\ \A k \in 1..(Len(split_ranges) - 1) :
              split_ranges[k + 1][1] = split_ranges[k][2] + 1
        /\ (split_from = 1000 /\ split_to = 1250)
              => split_ranges = <<<<1000, 1099>>, <<1100, 1199>>, <<1200, 1250>>>>

\* split_range(1000, 1250) has returned.
C38_Witness ==
    /\ split_pc = "returned"
    /\ split_from = 1000
    /\ split_to = 1250
    /\ Len(split_ranges) = 3

\* ------------------------------------------------------------------------
\* Portal::stream (src/src/portal/client.rs): the response's bytes come in
\* chunks and are read line by line.
\*
\* A byte is "a" or "b" (ASCII), "\n", or one of the two bytes of a
\* two-byte UTF-8 character: "L" its first, "C" its second.
\* ------------------------------------------------------------------------

\* The number of lines of the longest response.
MaxLines == 2

\* The lines a response is made of, without the newline that ends each.
PortalLines == {<<"a">>, <<"a", "b">>, <<"L", "C">>}

\* str::from_utf8 on the bytes appended by read_line.
from_utf8_ok(bytes) ==
    \A i \in 1..Len(bytes) :
        /\ bytes[i] = "L" => (i < Len(bytes) /\ bytes[i + 1] = "C")
        /\ bytes[i] = "C" => (i > 1 /\ bytes[i - 1] = "L")

\* reader.read_line(&mut line): the bytes up to and including the first
\* newline, or all of them, are appended to line when they are UTF-8; n is
\* the number of bytes read.
read_line(line, reader) ==
    LET newlines == {i \in 1..Len(reader) : reader[i] = "\n"}
        n == IF newlines = {} THEN Len(reader)
             ELSE CHOOSE i \in newlines : \A j \in newlines : i <= j
        bytes == SubSeq(reader, 1, n)
    IN  [n |-> n,
         ok |-> from_utf8_ok(bytes),
         line |-> IF from_utf8_ok(bytes) THEN line \o bytes ELSE line,
         rest |-> SubSeq(reader, n + 1, Len(reader))]

\* serde_json::from_str(&line): the block written on the line, the newline
\* being whitespace; nothing to parse is an error.
from_str(line) ==
    LET text == SelectSeq(line, LAMBDA byte : byte # "\n")
    IN  IF text = <<>> THEN None ELSE Some(text)

RECURSIVE stream_chunk(_, _, _)
\* The loop over one chunk's reader: the line buffer after it, the blocks
\* yielded, and whether it ended without an error.
stream_chunk(line, reader, blocks) ==
    LET r == read_line(line, reader)
    IN  IF r.n = 0 THEN [ok |-> TRUE, line |-> line, blocks |-> blocks]
        ELSE IF ~r.ok THEN [ok |-> FALSE, line |-> line, blocks |-> blocks]
        ELSE IF r.line[Len(r.line)] # "\n"
             THEN stream_chunk(r.line, r.rest, blocks)
        ELSE IF ~IsSome(from_str(r.line))
             THEN [ok |-> FALSE, line |-> r.line, blocks |-> blocks]
        ELSE stream_chunk(<<>>, r.rest, Append(blocks, Unwrap(from_str(r.line))))

\* stream.try_next().await? and the loop over the chunk; the end of the
\* response ends the stream.
PortalChunk ==
    /\ ptl_pc = "stream"
    /\ IF ptl_stream = <<>>
       THEN /\ ptl_pc' = "done"
            /\ UNCHANGED <<ptl_stream, ptl_line, ptl_out>>
       ELSE LET got == stream_chunk(ptl_line, Head(ptl_stream), <<>>)
            IN  /\ ptl_out' = ptl_out \o got.blocks
                /\ ptl_line' = got.line
                /\ ptl_stream' = Tail(ptl_stream)
                /\ ptl_pc' = IF got.ok THEN "stream" ELSE "failed"
    /\ UNCHANGED ptl_lines
    /\ UNCHANGED <<arcVars, upVars, orcVars, hotVars, curVars, srcVars, fetVars, stmVars, metVars, fltVars, encVars, htVars, strVars, splitVars, trcVars>>

RECURSIVE ResponseBytes(_)
\* The bytes of a response: every line with its newline.
ResponseBytes(lines) ==
    IF lines = <<>> THEN <<>>
    ELSE Head(lines) \o <<"\n">> \o ResponseBytes(Tail(lines))

RECURSIVE SplitChunks(_, _, _)
\* The chunks of bytes that end at the positions ends, from position start.
SplitChunks(bytes, start, ends) ==
    IF ends = {} THEN <<>>
    ELSE LET e == CHOOSE x \in ends : \A y \in ends : x <= y
         IN  <<SubSeq(bytes, start, e)>> \o SplitChunks(bytes, e + 1, ends \ {e})

\* Every way of cutting the bytes into chunks.
ChunkingsOf(bytes) ==
    {SplitChunks(bytes, 1, cuts \cup {Len(bytes)}) :
        cuts \in SUBSET (1..(Len(bytes) - 1))}

\* The responses: one line or more, each ended by its newline.
PortalResponses == UNION {[1..n -> PortalLines] : n \in 1..MaxLines}

\* The response has arrived with status 200; bytes_stream() delivers it in
\* some chunking.
InitPortal ==
    /\ ptl_pc = "stream"
    /\ ptl_lines \in PortalResponses
    /\ ptl_stream \in ChunkingsOf(ResponseBytes(ptl_lines))
    /\ ptl_line = <<>>
    /\ ptl_out = <<>>
    /\ StreamsIdle
    /\ TrcIdle
    /\ MetricsZero
    /\ CurIdle
    /\ SrcIdle
    /\ FetIdle
    /\ StmIdle
    /\ FltIdle
    /\ EncIdle
    /\ HtIdle
    /\ StrIdle
    /\ SplitIdle

NextPortal == PortalChunk

SpecPortal == InitPortal /\ [][NextPortal]_vars

\* C39: however the response's bytes are cut into chunks, the stream
\* yields the blocks of the newline-terminated lines, one per line and in
\* order: at every moment the blocks yielded are the first lines of the
\* response, and at the end they are all of them.
C39_OneBlockPerLine ==
    /\ ptl_pc # "failed"
    /\ Len(ptl_out) <= Len(ptl_lines)
    /\ ptl_out = SubSeq(ptl_lines, 1, Len(ptl_out))
    /\ ptl_pc = "done" => ptl_out = ptl_lines

\* ---------------------------------------------------------------------
\* Conversion of node traces (trace_filter / trace_transaction) into
\* canonical traces, and the encoding of a canonical trace into a call.
\* ---------------------------------------------------------------------

\* evm::Action: a call with its optional call type, a create, or one of
\* the kinds the conversion does not support.
EvmActions ==
    {[kind |-> "call", call_type |-> t] :
        t \in {"none", "call", "callcode", "delegatecall", "staticcall"}}
    \cup {[kind |-> k, call_type |-> "none"] : k \in {"create", "suicide", "reward"}}

\* evm::Res: absent, the result of a call, or that of a create with the
\* address of the contract created.
EvmResults ==
    {None, Some([kind |-> "call", address |-> ""])}
    \cup {Some([kind |-> "create", address |-> a]) : a \in {"A", "B"}}

EvmTraces ==
    [action : EvmActions, result : EvmResults,
     error : {None, Some("e")}, transaction_position : {None, Some(0)}]

\* impl TryFrom<evm::Trace> for Trace: both arms build a trace of type
\* Call; the create arm leaves action.to and action.type empty and keeps
\* the address of a create result.
trace_try_from(value) ==
    IF value.action.kind \notin {"call", "create"}
    THEN [ok |-> FALSE, error |-> "only call and create traces are supported"]
    ELSE IF value.transaction_position = None
    THEN [ok |-> FALSE, error |-> "no transaction position"]
    ELSE IF value.action.kind = "call"
    THEN [ok |-> TRUE,
          trace |-> [transaction_index |-> Unwrap(value.transaction_position),
                     type |-> "call",
                     error |-> value.error,
                     revert_reason |-> None,
                     action |-> Some([to |-> Some("T"),
                                      type |-> IF value.action.call_type = "none"
                                               THEN None
                                               ELSE Some(value.action.call_type)]),
                     result |-> IF IsSome(value.result) /\ Unwrap(value.result).kind = "call"
                                THEN Some([address |-> None])
                                ELSE None]]
    ELSE [ok |-> TRUE,
          trace |-> [transaction_index |-> Unwrap(value.transaction_position),
                     type |-> "call",
                     error |-> value.error,
                     revert_reason |-> None,
                     action |-> Some([to |-> None, type |-> None]),
                     result |-> IF IsSome(value.result) /\ Unwrap(value.result).kind = "create"
                                THEN Some([address |-> Some(Unwrap(value.result).address)])
                                ELSE None]]

\* call_type of the encoded call: 5 for a create, 1..4 for the call
\* types, 0 where the unwrap of an absent call type panics.
trace_call_type_code(trace) ==
    IF trace.type = "create" THEN 5
    ELSE IF trace.action = None \/ Unwrap(trace.action).type = None THEN 0
    ELSE CASE Unwrap(Unwrap(trace.action).type) = "call" -> 1
           [] Unwrap(Unwrap(trace.action).type) = "callcode" -> 2
           [] Unwrap(Unwrap(trace.action).type) = "delegatecall" -> 3
           [] Unwrap(Unwrap(trace.action).type) = "staticcall" -> 4

\* address of the encoded call: the address of the result for a create,
\* the callee for a call; None where the unwrap panics.
trace_call_address(trace) ==
    IF trace.type = "create"
    THEN IF trace.result = None THEN None ELSE Unwrap(trace.result).address
    ELSE IF trace.action = None THEN None ELSE Unwrap(trace.action).to

\* The encoder's closure over one trace: a call, or a panic.
trace_encode(trace) ==
    IF trace_call_type_code(trace) = 0 \/ trace_call_address(trace) = None
    THEN [panic |-> TRUE, call_type |-> 0, address |-> ""]
    ELSE [panic |-> FALSE,
          call_type |-> trace_call_type_code(trace),
          address |-> Unwrap(trace_call_address(trace))]

otherThanTrc ==
    <<arcVars, upVars, orcVars, hotVars, curVars, srcVars, fetVars, stmVars,
      metVars, fltVars, encVars, htVars, strVars, splitVars, ptlVars>>

\* The RPC source converts the trace the node returned.
TraceTryFrom ==
    /\ trc_pc = "value"
    /\ LET r == trace_try_from(Unwrap(trc_value)) IN
        IF r.ok
        THEN /\ trc_trace' = Some(r.trace)
             /\ trc_pc' = "trace"
        ELSE /\ trc_trace' = None
             /\ trc_pc' = "error"
    /\ UNCHANGED <<trc_value, trc_call>>
    /\ UNCHANGED otherThanTrc

\* The encoder turns the canonical trace into a call of the block.
TraceEncode ==
    /\ trc_pc = "trace"
    /\ LET c == trace_encode(Unwrap(trc_trace)) IN
        /\ trc_call' = Some(c)
        /\ trc_pc' = IF c.panic THEN "panic" ELSE "call"
    /\ UNCHANGED <<trc_value, trc_trace>>
    /\ UNCHANGED otherThanTrc

InitTrace ==
    /\ StreamsIdle
    /\ CurIdle /\ SrcIdle /\ FetIdle /\ StmIdle /\ MetricsZero
    /\ FltIdle /\ EncIdle /\ HtIdle /\ StrIdle /\ SplitIdle /\ PtlIdle
    /\ trc_pc = "value"
    /\ trc_value \in {Some(v) : v \in EvmTraces}
    /\ trc_trace = None
    /\ trc_call = None

NextTrace == TraceTryFrom \/ TraceEncode

SpecTrace == InitTrace /\ [][NextTrace]_vars

\* The node trace is a contract creation that succeeded and has a
\* transaction position.
IsCreation ==
    /\ IsSome(trc_value)
    /\ Unwrap(trc_value).action.kind = "create"
    /\ IsSome(Unwrap(trc_value).transaction_position)
    /\ IsSome(Unwrap(trc_value).result)
    /\ Unwrap(Unwrap(trc_value).result).kind = "create"

\* C40: a contract-creation trace obtained from the RPC source is
\* converted into a canonical trace of type Create carrying the address
\* of its result, and the encoder emits it with call_type = 5 and
\* address = result.address.
C40_CreateIsEncoded ==
    IsCreation =>
        /\ trc_pc # "error"
        /\ IsSome(trc_trace) =>
              /\ Unwrap(trc_trace).type = "create"
              /\ Unwrap(trc_trace).result
                    = Some([address |-> Some(Unwrap(Unwrap(trc_value).result).address)])
        /\ IsSome(trc_call) =>
              /\ ~Unwrap(trc_call).panic
              /\ Unwrap(trc_call).call_type = 5
              /\ Unwrap(trc_call).address = Unwrap(Unwrap(trc_value).result).address

====
